---- MODULE Spec2Model ----
(***************************************************************************)
(* Application-layer parsers of rust/src: MQTT, NTP, DHCP, IKE and KRB5.   *)
(* One flow is modelled.  The flow's protocol is fixed when its state is    *)
(* allocated (state_new); the host then calls the parse entry points, the   *)
(* transaction getters, the iterator and tx_free in any order.              *)
(***************************************************************************)
EXTENDS Integers, Sequences, FiniteSets, TLC

VARIABLES
    proto,             \* which parser owns the flow state
    tx_id,             \* <Proto>State.tx_id
    transactions,      \* <Proto>State.transactions (Vec, in push order)
    events,            \* NTPState.events / DHCPState.events (u16 counter)
    protocol_version,  \* MQTTState.protocol_version
    connected,         \* MQTTState.connected
    skip_request,      \* MQTTState.skip_request
    skip_response,     \* MQTTState.skip_response
    req_id,            \* KRB5State.req_id
    record_ts,         \* KRB5State.record_ts
    defrag_buf_ts,     \* KRB5State.defrag_buf_ts
    record_tc,         \* KRB5State.record_tc
    defrag_buf_tc,     \* KRB5State.defrag_buf_tc
    pstate,            \* the host's view of the flow's parser (_pstate)
    held_ts,           \* to-server bytes the host re-delivers after Incomplete
    held_tc,           \* to-client bytes the host re-delivers after Incomplete
    wire_ts,           \* to-server bytes of the stream not yet delivered
    wire_tc,           \* to-client bytes of the stream not yet delivered
    walk,              \* the host's iterator loop: its min_tx_id, its cursor
                       \* (istate: &mut u64) and the tuples it was handed
    last,              \* the last call the host made and what it returned
    peer               \* the state of a second flow of the process, while the
                       \* host works on this one

vars == <<proto, tx_id, transactions, events, protocol_version, connected,
          skip_request, skip_response, req_id, record_ts, defrag_buf_ts,
          record_tc, defrag_buf_tc, pstate, held_ts, held_tc, wire_ts, wire_tc,
          walk, last, peer>>

-----------------------------------------------------------------------------
(* Bounds of the model *)

\* transactions one flow creates before the host stops delivering data
MaxTx == 2
\* transactions an MQTT session creates before the host stops delivering
MaxSessionTx == 3
\* messages one MQTT transaction collects before the host stops delivering
MaxMsgs == 4
\* transactions an MQTT flow of multi-message buffers creates
MaxAnomalyTx == 5

(* Program constants *)

\* a u32 packet identifier is kept as its two 16-bit halves <<high, low>>
U16_MAX == 65535
\* a variant of the reserved key that fits the 16-bit range of wire ids
MQTT_CONNECT_PKT_ID_u16 == <<0, U16_MAX>>
\* MQTT_CONNECT_PKT_ID = std::u32::MAX
MQTT_CONNECT_PKT_ID == <<U16_MAX, U16_MAX>>
\* message_id as u32: a 16-bit wire identifier widened to u32
as_u32(id16) == <<0, id16 % (U16_MAX + 1)>>
\* the configured maximum MQTT message length (MAX_MSG_LEN, set from
\* cfg_max_msg_len by rs_mqtt_register_parser); the model configures 2 bytes
cfg_max_msg_len == 2

\* Option<T>: None is the empty tuple, Some(x) the 1-tuple
None == <<>>
Some(x) == <<x>>

Min(a, b) == IF a < b THEN a ELSE b
Drop(s, n) == SubSeq(s, n + 1, Len(s))
Take(s, n) == SubSeq(s, 1, Min(n, Len(s)))

-----------------------------------------------------------------------------
(* applayer.rs: the result of a parse call *)

\* a variant of ok() that takes the status of incomplete()
AppLayerResult_ok_status1 == [status |-> 1, consumed |-> 0, needed |-> 0]
\* a variant of incomplete() that drops the consumed count
AppLayerResult_incomplete_unconsumed(c, n) ==
    [status |-> 1, consumed |-> 0, needed |-> n]

AppLayerResult_ok == [status |-> 0, consumed |-> 0, needed |-> 0]
AppLayerResult_err == [status |-> -1, consumed |-> 0, needed |-> 0]
AppLayerResult_incomplete(c, n) == [status |-> 1, consumed |-> c, needed |-> n]

is_ok(r) == r.status = 0
is_incomplete(r) == r.status = 1
is_err(r) == r.status = -1

-----------------------------------------------------------------------------
(* A stored transaction.  Every protocol's transaction is kept in the same  *)
(* record shape; the fields a protocol does not have keep their defaults.   *)

Tx(id, pkt, msgs, compl, tc, ts, evs, x) ==
    [tx_id |-> id, pkt_id |-> pkt, msg |-> msgs, complete |-> compl,
     toclient |-> tc, toserver |-> ts, events |-> evs, xid |-> x,
     de_state |-> None]

\* what dropping a transaction releases of the detection engine's objects.
\* MQTTTransaction::free, DHCPTransaction::free, IKETransaction::free and
\* Drop for KRB5Transaction: sc_detect_engine_state_free(state) when
\* de_state is Some(state)
free_de_state(tx) == IF tx.de_state # None THEN {tx.de_state[1]} ELSE {}

\* NTPTransaction::free releases the decoder events only
NTPTransaction_free(tx) == {}

\* Drop for the transaction type of a parser
Transaction_drop(p, tx) ==
    IF p = "ntp" THEN NTPTransaction_free(tx) ELSE free_de_state(tx)

\* the detection states released when the transactions of old that are not
\* in new are dropped
Released(p, old, new) ==
    UNION {Transaction_drop(p, old[i]) :
             i \in {j \in 1..Len(old) : \A k \in 1..Len(new) : new[k] # old[j]}}

\* export_tx_set_detect_state / rs_krb5_state_set_tx_detect_state /
\* rs_ntp_state_set_tx_detect_state: tx.de_state = Some(de_state); 0
tx_set_de_state(tx, de_state) == [tx EXCEPT !.de_state = Some(de_state)]

\* export_tx_get_detect_state / rs_krb5_state_get_tx_detect_state /
\* rs_ntp_state_get_tx_detect_state: the stored pointer, or null
NullPtr == "null"
tx_get_de_state(tx) == IF tx.de_state # None THEN tx.de_state[1] ELSE NullPtr

TxIds(txs) == {txs[i].tx_id : i \in 1..Len(txs)}

RemoveAt(s, i) == SubSeq(s, 1, i - 1) \o SubSeq(s, i + 1, Len(s))

-----------------------------------------------------------------------------
(* MQTT: the message decoder (mqtt/parser.rs).  The wire format of the      *)
(* model: byte 1 carries the message type in its high nibble and the QoS    *)
(* level in bits 1..2, byte 2 is the remaining length, and the first body   *)
(* element carries the 16-bit message identifier (the protocol level for    *)
(* CONNECT).                                                                 *)

MQTTTypeCode(b) ==
    LET c == b \div 16 IN
    CASE c = 1 -> "CONNECT"     [] c = 2 -> "CONNACK"   [] c = 3 -> "PUBLISH"
      [] c = 4 -> "PUBACK"      [] c = 5 -> "PUBREC"    [] c = 6 -> "PUBREL"
      [] c = 7 -> "PUBCOMP"     [] c = 8 -> "SUBSCRIBE" [] c = 9 -> "SUBACK"
      [] c = 10 -> "UNSUBSCRIBE" [] c = 11 -> "UNSUBACK" [] c = 12 -> "PINGREQ"
      [] c = 13 -> "PINGRESP"   [] c = 14 -> "DISCONNECT" [] c = 15 -> "AUTH"
      [] OTHER -> "UNASSIGNED"

\* message types whose body starts with a field the decoder requires
HasIdField(t, qos) ==
    \/ t \in {"CONNECT", "PUBACK", "PUBREC", "PUBREL", "PUBCOMP", "SUBSCRIBE",
              "SUBACK", "UNSUBSCRIBE", "UNSUBACK"}
    \/ t = "PUBLISH" /\ qos > 0

MQTTMessage(t, qos, id, ver, skipped) ==
    [type |-> t, qos_level |-> qos, message_id |-> id,
     protocol_version |-> ver, skipped_length |-> skipped]

\* the length of the fixed header: the flag byte and a one-byte length
FixedHeaderLen == 2

parse_message(input, version, max_msg_size) ==
    IF Len(input) < FixedHeaderLen
    THEN [kind |-> "Incomplete", rem |-> input, msg |-> MQTTMessage("", 0, None, 0, 0)]
    ELSE
    LET t == MQTTTypeCode(input[1])
        qos == (input[1] \div 2) % 4
        len == input[2]
        skiplen == FixedHeaderLen
    IN  IF len > max_msg_size
        THEN \* the full input buffer is returned: skipped_length counts the
             \* header and the remaining length
             [kind |-> "Ok", rem |-> input,
              msg |-> MQTTMessage("TRUNCATED", qos, None, 0, len + skiplen)]
        ELSE IF Len(input) < skiplen + len
        THEN [kind |-> "Incomplete", rem |-> input,
              msg |-> MQTTMessage("", 0, None, 0, 0)]
        ELSE IF HasIdField(t, qos) /\ len = 0
        THEN [kind |-> "Error", rem |-> input,
              msg |-> MQTTMessage("", 0, None, 0, 0)]
        ELSE [kind |-> "Ok", rem |-> Drop(input, skiplen + len),
              msg |-> MQTTMessage(t, qos,
                         IF HasIdField(t, qos) /\ t # "CONNECT"
                         THEN Some(input[3]) ELSE None,
                         IF t = "CONNECT" THEN input[3] ELSE 0,
                         0)]

-----------------------------------------------------------------------------
(* MQTT: MQTTState and its methods (mqtt/mqtt.rs).  st is the MQTTState:    *)
(* [tx_id, protocol_version, transactions, connected, skip_request,          *)
(*  skip_response, max_msg_len].                                             *)

MQTTTransaction_new(msg) ==
    Tx(0, None, <<msg.type>>, FALSE, FALSE, FALSE, <<>>, 0)

MQTTState_new ==
    [tx_id |-> 0, protocol_version |-> 0, transactions |-> <<>>,
     connected |-> FALSE, skip_request |-> 0, skip_response |-> 0,
     max_msg_len |-> cfg_max_msg_len]

\* a variant of the lookup that compares with the external id
MQTT_find_tx_external(txs, id) ==
    LET hits == {i \in 1..Len(txs) : txs[i].tx_id = id}
    IN  IF hits = {} THEN 0 ELSE CHOOSE i \in hits : \A j \in hits : i <= j

\* the index of the transaction free_tx / get_tx select, 0 when none
MQTT_find_tx(txs, id) ==
    LET hits == {i \in 1..Len(txs) : txs[i].tx_id = id + 1}
    IN  IF hits = {} THEN 0 ELSE CHOOSE i \in hits : \A j \in hits : i <= j

MQTT_free_tx(txs, id) ==
    LET index == MQTT_find_tx(txs, id)
    IN  IF index # 0 THEN RemoveAt(txs, index) ELSE txs

MQTT_get_tx(txs, id) ==
    LET index == MQTT_find_tx(txs, id)
    IN  IF index # 0 THEN Some(txs[index]) ELSE None

\* a variant of the lookup that returns the last such transaction
get_tx_by_pkt_id_newest(txs, pkt_id) ==
    LET hits == {i \in 1..Len(txs) :
                    ~txs[i].complete /\ txs[i].pkt_id = Some(pkt_id)}
    IN  IF hits = {} THEN 0 ELSE CHOOSE i \in hits : \A j \in hits : i >= j

\* the index of the first incomplete transaction holding pkt_id, 0 when none
get_tx_by_pkt_id(txs, pkt_id) ==
    LET hits == {i \in 1..Len(txs) :
                    ~txs[i].complete /\ txs[i].pkt_id = Some(pkt_id)}
    IN  IF hits = {} THEN 0 ELSE CHOOSE i \in hits : \A j \in hits : i <= j

\* a variant of new_tx that numbers a transaction by the stored count
new_tx_by_stored_count(st, msg, toclient) ==
    [st |-> [st EXCEPT !.tx_id = Len(st.transactions) + 1],
     tx |-> [MQTTTransaction_new(msg) EXCEPT
                !.tx_id = Len(st.transactions) + 1,
                !.toclient = toclient,
                !.toserver = ~toclient]]

new_tx(st, msg, toclient) ==
    [st |-> [st EXCEPT !.tx_id = @ + 1],
     tx |-> [MQTTTransaction_new(msg) EXCEPT
                !.tx_id = st.tx_id + 1,
                !.toclient = toclient,
                !.toserver = ~toclient]]

\* a variant of push_new_tx that assigns the Vec instead of pushing to it
push_new_tx_assign(st, msg, toclient, pkt_id, complete, evs) ==
    [st EXCEPT !.tx_id = @ + 1,
               !.transactions =
                  <<[MQTTTransaction_new(msg) EXCEPT
                       !.tx_id = st.tx_id + 1, !.toclient = toclient,
                       !.toserver = ~toclient, !.pkt_id = pkt_id,
                       !.complete = complete, !.events = evs]>>]

set_event(tx, event) == [tx EXCEPT !.events = Append(@, event)]

\* let mut tx = self.new_tx(msg, toclient); <set fields>; self.transactions.push(tx)
push_new_tx(st, msg, toclient, pkt_id, complete, evs) ==
    LET n == new_tx(st, msg, toclient)
        tx == [n.tx EXCEPT !.pkt_id = pkt_id, !.complete = complete]
        txe == IF evs = <<>> THEN tx ELSE set_event(tx, evs[1])
    IN  [n.st EXCEPT !.transactions = Append(@, txe)]

\* a variant of the completing arms that only appends the message
ack_complete_append_only(st, index, msg) ==
    [st EXCEPT !.transactions[index].msg = Append(@, msg.type)]

\* a variant of the completing arms that leaves the key on the transaction
ack_complete_keeps_key(st, index, msg) ==
    [st EXCEPT !.transactions[index].msg = Append(@, msg.type),
               !.transactions[index].complete = TRUE]

\* (*tx).msg.push(msg); (*tx).complete = true; (*tx).pkt_id = None
ack_complete(st, index, msg) ==
    [st EXCEPT !.transactions[index].msg = Append(@, msg.type),
               !.transactions[index].complete = TRUE,
               !.transactions[index].pkt_id = None]

\* (*tx).msg.push(msg)   (PUBREC / PUBREL)
ack_append(st, index, msg) ==
    [st EXCEPT !.transactions[index].msg = Append(@, msg.type)]

\* the match on msg.header.qos_level of PUBLISH / SUBSCRIBE / UNSUBSCRIBE
qos_arm(st, msg, toclient, pkt_id) ==
    CASE msg.qos_level = 0 -> push_new_tx(st, msg, toclient, None, TRUE, <<>>)
      [] msg.qos_level \in 1..2 ->
            IF pkt_id # None
            THEN push_new_tx(st, msg, toclient, pkt_id, FALSE, <<>>)
            ELSE push_new_tx(st, msg, toclient, None, FALSE, <<"MissingMsgId">>)
      [] OTHER -> push_new_tx(st, msg, toclient, None, FALSE, <<"InvalidQosLevel">>)

\* a variant of the !self.connected branches that drops the message
unintroduced_dropped(st, msg, toclient) == st

unintroduced(st, msg, toclient) ==
    push_new_tx(st, msg, toclient, None, FALSE, <<"UnintroducedMessage">>)

\* a variant of the acknowledgement arms that drops an unmatched message
ack_arm_drops_unmatched(st, msg, toclient, missing) ==
    IF ~st.connected THEN unintroduced(st, msg, toclient)
    ELSE LET index == get_tx_by_pkt_id(st.transactions, as_u32(msg.message_id[1]))
         IN  IF index # 0 THEN ack_complete(st, index, msg) ELSE st

\* the acknowledgement arms that complete the matched transaction
ack_arm(st, msg, toclient, missing) ==
    IF ~st.connected THEN unintroduced(st, msg, toclient)
    ELSE LET index == get_tx_by_pkt_id(st.transactions, as_u32(msg.message_id[1]))
         IN  IF index # 0 THEN ack_complete(st, index, msg)
             ELSE push_new_tx(st, msg, toclient, None, FALSE, <<missing>>)

handle_msg(st, msg, toclient) ==
    CASE msg.type = "CONNECT" ->
            LET s1 == [st EXCEPT !.protocol_version = msg.protocol_version]
            IN  IF s1.connected
                THEN push_new_tx(s1, msg, toclient, None, FALSE, <<"DoubleConnect">>)
                ELSE push_new_tx(s1, msg, toclient, Some(MQTT_CONNECT_PKT_ID), FALSE, <<>>)
      [] msg.type \in {"PUBLISH", "SUBSCRIBE", "UNSUBSCRIBE"} ->
            IF ~st.connected THEN unintroduced(st, msg, toclient)
            ELSE qos_arm(st, msg, toclient,
                         IF msg.message_id = None THEN None
                         ELSE Some(as_u32(msg.message_id[1])))
      [] msg.type = "CONNACK" ->
            LET index == get_tx_by_pkt_id(st.transactions, MQTT_CONNECT_PKT_ID)
            IN  IF index # 0
                THEN [ack_complete(st, index, msg) EXCEPT !.connected = TRUE]
                ELSE push_new_tx(st, msg, toclient, None, FALSE, <<"MissingConnect">>)
      [] msg.type \in {"PUBREC", "PUBREL"} ->
            IF ~st.connected THEN unintroduced(st, msg, toclient)
            ELSE LET index == get_tx_by_pkt_id(st.transactions, as_u32(msg.message_id[1]))
                 IN  IF index # 0 THEN ack_append(st, index, msg)
                     ELSE push_new_tx(st, msg, toclient, None, FALSE, <<"MissingPublish">>)
      [] msg.type \in {"PUBACK", "PUBCOMP"} -> ack_arm(st, msg, toclient, "MissingPublish")
      [] msg.type = "SUBACK" -> ack_arm(st, msg, toclient, "MissingSubscribe")
      [] msg.type = "UNSUBACK" -> ack_arm(st, msg, toclient, "MissingUnsubscribe")
      [] msg.type = "UNASSIGNED" ->
            push_new_tx(st, msg, toclient, None, TRUE, <<"UnassignedMsgType">>)
      [] msg.type = "TRUNCATED" -> push_new_tx(st, msg, toclient, None, TRUE, <<>>)
      [] msg.type \in {"AUTH", "DISCONNECT", "PINGREQ", "PINGRESP"} ->
            IF ~st.connected THEN unintroduced(st, msg, toclient)
            ELSE push_new_tx(st, msg, toclient, None, TRUE, <<>>)


\* what a parse call hands back to the entry point: the state it leaves, the
\* AppLayerResult, how the call ended ("returned", or "panic" / "hang" when
\* the usize subtraction of the loop underflows), whether a TRUNCATED message
\* was decoded and how many messages went to handle_msg
ParseRet(st, outcome, res, trunc, n) ==
    [st |-> st, outcome |-> outcome, res |-> res, trunc |-> trunc, handled |-> n]

\* consumed += current.len() - rem.len() with current.len() < rem.len():
\* a build with overflow checks panics; a build without them wraps, and as
\* current = rem restores the buffer the loop has just decoded, it decodes
\* the same message again without end
underflow(st, current, rem, overflow_checks, n) ==
    IF overflow_checks
    THEN ParseRet(st, "panic", AppLayerResult_err, TRUE, n)
    ELSE ParseRet(st, "hang", AppLayerResult_err, TRUE, n)

\* one round of the while loop of parse_request, p what parse_message made
\* of current: the state the round leaves and, when the loop goes on, the
\* bytes and the count it goes on with
parse_request_round(st, current, consumed, overflow_checks, trunc, n, p) ==
    CASE p.kind = "Ok" ->
            LET isTrunc == p.msg.type = "TRUNCATED"
                skipped == isTrunc /\ p.msg.skipped_length >= Len(current)
                cur1 == IF isTrunc /\ ~skipped
                        THEN Drop(current, p.msg.skipped_length) ELSE current
                s1 == IF ~isTrunc THEN st
                      ELSE IF skipped
                      THEN [st EXCEPT !.skip_request =
                                        p.msg.skipped_length - Len(current)]
                      ELSE [st EXCEPT !.skip_request = 0]
            IN  CHOOSE round \in
                  {IF skipped
                   THEN [go |-> FALSE, current |-> <<>>, consumed |-> 0,
                         ret |-> ParseRet(s2, "returned", AppLayerResult_ok,
                                          TRUE, n + 1)]
                   ELSE IF Len(cur1) < Len(p.rem)
                   THEN [go |-> FALSE, current |-> <<>>, consumed |-> 0,
                         ret |-> underflow(s2, cur1, p.rem, overflow_checks, n + 1)]
                   ELSE [go |-> TRUE, current |-> p.rem,
                         consumed |-> consumed + (Len(cur1) - Len(p.rem)),
                         ret |-> ParseRet(s2, "returned", AppLayerResult_ok,
                                          trunc \/ isTrunc, n + 1)]
                   : s2 \in {handle_msg(s1, p.msg, FALSE)}} : TRUE
      [] p.kind = "Incomplete" ->
            [go |-> FALSE, current |-> <<>>, consumed |-> 0,
             ret |-> ParseRet(st, "returned",
                              AppLayerResult_incomplete(consumed, Len(current) + 1),
                              trunc, n)]
      [] OTHER ->
            [go |-> FALSE, current |-> <<>>, consumed |-> 0,
             ret |-> ParseRet(st, "returned", AppLayerResult_err, trunc, n)]

RECURSIVE parse_request_loop(_, _, _, _, _, _)
parse_request_loop(st, current, consumed, overflow_checks, trunc, n) ==
    IF Len(current) = 0
    THEN ParseRet(st, "returned", AppLayerResult_ok, trunc, n)
    ELSE CHOOSE ret \in
           {IF round.go
            THEN parse_request_loop(round.ret.st, round.current, round.consumed,
                                    overflow_checks, round.ret.trunc,
                                    round.ret.handled)
            ELSE round.ret
            : round \in
                {parse_request_round(st, current, consumed, overflow_checks,
                                     trunc, n, p)
                 : p \in {parse_message(current, st.protocol_version,
                                        st.max_msg_len)}}} : TRUE

\* a variant of parse_request that forgets the rest of the skip when a chunk
\* ends inside the skipped bytes
parse_request_forgets_skip(st, input, overflow_checks) ==
    IF Len(input) = 0
    THEN ParseRet(st, "returned", AppLayerResult_ok, FALSE, 0)
    ELSE IF st.skip_request > 0
    THEN IF Len(input) <= st.skip_request
         THEN ParseRet([st EXCEPT !.skip_request = 0],
                       "returned", AppLayerResult_ok, FALSE, 0)
         ELSE parse_request_loop([st EXCEPT !.skip_request = 0],
                                 Drop(input, st.skip_request),
                                 st.skip_request, overflow_checks, FALSE, 0)
    ELSE parse_request_loop(st, input, 0, overflow_checks, FALSE, 0)

parse_request(st, input, overflow_checks) ==
    IF Len(input) = 0
    THEN ParseRet(st, "returned", AppLayerResult_ok, FALSE, 0)
    ELSE IF st.skip_request > 0
    THEN IF Len(input) <= st.skip_request
         THEN ParseRet([st EXCEPT !.skip_request = @ - Len(input)],
                       "returned", AppLayerResult_ok, FALSE, 0)
         ELSE parse_request_loop([st EXCEPT !.skip_request = 0],
                                 Drop(input, st.skip_request),
                                 st.skip_request, overflow_checks, FALSE, 0)
    ELSE parse_request_loop(st, input, 0, overflow_checks, FALSE, 0)

\* one round of the while loop of parse_response, p what parse_message made
\* of current: the state the round leaves and, when the loop goes on, the
\* bytes and the count it goes on with
parse_response_round(st, current, consumed, overflow_checks, trunc, n, p) ==
    CASE p.kind = "Ok" ->
            LET isTrunc == p.msg.type = "TRUNCATED"
                skipped == isTrunc /\ p.msg.skipped_length >= Len(current)
                cur1 == IF isTrunc /\ ~skipped
                        THEN Drop(current, p.msg.skipped_length) ELSE current
                s1 == IF ~isTrunc THEN st
                      ELSE IF skipped
                      THEN [st EXCEPT !.skip_response =
                                        p.msg.skipped_length - Len(current)]
                      ELSE [st EXCEPT !.skip_response = 0]
            IN  CHOOSE round \in
                  {IF skipped
                   THEN [go |-> FALSE, current |-> <<>>, consumed |-> 0,
                         ret |-> ParseRet(s2, "returned", AppLayerResult_ok,
                                          TRUE, n + 1)]
                   ELSE IF Len(cur1) < Len(p.rem)
                   THEN [go |-> FALSE, current |-> <<>>, consumed |-> 0,
                         ret |-> underflow(s2, cur1, p.rem, overflow_checks, n + 1)]
                   ELSE [go |-> TRUE, current |-> p.rem,
                         consumed |-> consumed + (Len(cur1) - Len(p.rem)),
                         ret |-> ParseRet(s2, "returned", AppLayerResult_ok,
                                          trunc \/ isTrunc, n + 1)]
                   : s2 \in {handle_msg(s1, p.msg, TRUE)}} : TRUE
      [] p.kind = "Incomplete" ->
            [go |-> FALSE, current |-> <<>>, consumed |-> 0,
             ret |-> ParseRet(st, "returned",
                              AppLayerResult_incomplete(consumed, Len(current) + 1),
                              trunc, n)]
      [] OTHER ->
            [go |-> FALSE, current |-> <<>>, consumed |-> 0,
             ret |-> ParseRet(st, "returned", AppLayerResult_err, trunc, n)]

RECURSIVE parse_response_loop(_, _, _, _, _, _)
parse_response_loop(st, current, consumed, overflow_checks, trunc, n) ==
    IF Len(current) = 0
    THEN ParseRet(st, "returned", AppLayerResult_ok, trunc, n)
    ELSE CHOOSE ret \in
           {IF round.go
            THEN parse_response_loop(round.ret.st, round.current, round.consumed,
                                    overflow_checks, round.ret.trunc,
                                    round.ret.handled)
            ELSE round.ret
            : round \in
                {parse_response_round(st, current, consumed, overflow_checks,
                                     trunc, n, p)
                 : p \in {parse_message(current, st.protocol_version,
                                        st.max_msg_len)}}} : TRUE

parse_response(st, input, overflow_checks) ==
    IF Len(input) = 0
    THEN ParseRet(st, "returned", AppLayerResult_ok, FALSE, 0)
    ELSE IF st.skip_response > 0
    THEN IF Len(input) <= st.skip_response
         THEN ParseRet([st EXCEPT !.skip_response = @ - Len(input)],
                       "returned", AppLayerResult_ok, FALSE, 0)
         ELSE parse_response_loop([st EXCEPT !.skip_response = 0],
                                 Drop(input, st.skip_response),
                                 st.skip_response, overflow_checks, FALSE, 0)
    ELSE parse_response_loop(st, input, 0, overflow_checks, FALSE, 0)

\* AppLayerGetTxIterTuple: not_found() / with_values(tx, tx_id, has_next).
\* tx is the internal id of the transaction the tuple points to (0: null)
\* and state the cursor the call leaves in *istate
IterTuple_not_found(state) ==
    [found |-> FALSE, tx |-> 0, tx_id |-> 0, has_next |-> FALSE, state |-> state]

IterTuple_with_values(tx, id, has_next, state) ==
    [found |-> TRUE, tx |-> tx, tx_id |-> id, has_next |-> has_next,
     state |-> state]

\* the while loop of tx_iterator: the 1-based position it stops at, 0 when
\* it runs off the end of the Vec
RECURSIVE MQTT_iter_scan(_, _, _)
MQTT_iter_scan(txs, min_tx_id, index) ==
    IF ~(index < Len(txs)) THEN 0
    ELSE IF txs[index + 1].tx_id < min_tx_id + 1
    THEN MQTT_iter_scan(txs, min_tx_id, index + 1)
    ELSE index + 1

\* a variant of tx_iterator whose has_next counts the returned transaction
MQTT_tx_iterator_counts_itself(txs, min_tx_id, state) ==
    LET len == Len(txs)
        i == MQTT_iter_scan(txs, min_tx_id, state)
        index == i - 1
    IN  IF i = 0 THEN IterTuple_not_found(state)
        ELSE IterTuple_with_values(txs[i].tx_id, txs[i].tx_id - 1,
                                   (len - index) > 0, index)

MQTT_tx_iterator(txs, min_tx_id, state) ==
    LET len == Len(txs)
        i == MQTT_iter_scan(txs, min_tx_id, state)
        index == i - 1
    IN  IF i = 0 THEN IterTuple_not_found(state)
        ELSE IterTuple_with_values(txs[i].tx_id, txs[i].tx_id - 1,
                                   (len - index) > 1, index)

-----------------------------------------------------------------------------
(* NTP (ntp/ntp.rs).  The wire format of the model: byte 1 carries the      *)
(* version in bits 3..5 and the mode in bits 0..2, byte 2 the reference id. *)
(* st is the NTPState: [tx_id, transactions, events].                     *)

\* the length of an NTP packet in the model
NtpPacketLen == 2

NtpMode_SymmetricActive == 1
NtpMode_Client == 3

parse_ntp(i) ==
    IF Len(i) < NtpPacketLen
    THEN [kind |-> "Incomplete", mode |-> 0, version |-> 0, ref_id |-> 0]
    ELSE LET version == (i[1] \div 8) % 8 IN
         IF version \notin {3, 4}
         THEN [kind |-> "Error", mode |-> 0, version |-> version, ref_id |-> 0]
         ELSE [kind |-> "Ok", mode |-> i[1] % 8, version |-> version,
               ref_id |-> i[2]]

NTPState_new == [tx_id |-> 0, transactions |-> <<>>, events |-> 0]

NTPTransaction_new(id) == Tx(id, None, <<>>, FALSE, FALSE, FALSE, <<>>, 0)

NTP_new_tx(st) ==
    [st |-> [st EXCEPT !.tx_id = @ + 1], tx |-> NTPTransaction_new(st.tx_id + 1)]

NTP_set_event(st, event) ==
    IF Len(st.transactions) > 0
    THEN [st EXCEPT !.transactions[Len(st.transactions)].events = Append(@, event),
                    !.events = (@ + 1) % (U16_MAX + 1)]
    ELSE st

\* a variant of parse that opens a transaction for a datagram of any mode
NTP_parse_any_mode(st, i) ==
    LET msg == parse_ntp(i) IN
    IF msg.kind = "Ok"
    THEN LET n == NTP_new_tx(st)
         IN  [st |-> [n.st EXCEPT !.transactions =
                             Append(@, [n.tx EXCEPT !.xid = msg.ref_id])],
              ret |-> 0]
    ELSE [st |-> NTP_set_event(st, "MalformedData"), ret |-> -1]

NTP_parse(st, i) ==
    LET msg == parse_ntp(i) IN
    IF msg.kind = "Ok"
    THEN IF msg.mode = NtpMode_SymmetricActive \/ msg.mode = NtpMode_Client
         THEN LET n == NTP_new_tx(st)
              IN  [st |-> [n.st EXCEPT !.transactions =
                                  Append(@, [n.tx EXCEPT !.xid = msg.ref_id])],
                   ret |-> 0]
         ELSE [st |-> st, ret |-> 0]
    ELSE [st |-> NTP_set_event(st, "MalformedData"), ret |-> -1]

\* position(|tx| tx.id == id + 1): 1-based, 0 for None
position(txs, id) ==
    LET hits == {i \in 1..Len(txs) : txs[i].tx_id = id + 1}
    IN  IF hits = {} THEN 0 ELSE CHOOSE i \in hits : \A j \in hits : i <= j

NTP_get_tx_by_id(txs, id) ==
    IF position(txs, id) # 0 THEN Some(txs[position(txs, id)]) ELSE None

\* debug_assert!(tx != None): a build with debug assertions panics when the
\* id is not stored, a build without them leaves the Vec as it is
NTP_free_tx(txs, id, debug_assertions) ==
    LET idx == position(txs, id) IN
    IF idx = 0 /\ debug_assertions THEN [txs |-> txs, outcome |-> "panic"]
    ELSE IF idx # 0 THEN [txs |-> RemoveAt(txs, idx), outcome |-> "returned"]
    ELSE [txs |-> txs, outcome |-> "returned"]

-----------------------------------------------------------------------------
(* DHCP (dhcp/dhcp.rs).  The wire format of the model: the fixed header    *)
(* (the BOOTP fields and the magic cookie, 240 bytes, byte 1 the opcode)    *)
(* and an optional byte whose bit 0 says that the options are malformed and *)
(* whose bit 1 says that they are truncated.                                 *)

DHCP_MIN_FRAME_LEN == 232

DhcpHeaderLen == 240

\* dhcp/parser.rs parse_header: takes the fields of the fixed header
parse_header(input) ==
    IF Len(input) < DhcpHeaderLen
    THEN [kind |-> "Incomplete", opcode |-> 0]
    ELSE [kind |-> "Ok", opcode |-> input[1]]

dhcp_parse(input) ==
    IF Len(input) < DhcpHeaderLen
    THEN [kind |-> "Incomplete", malformed_options |-> FALSE,
          truncated_options |-> FALSE]
    ELSE [kind |-> "Ok",
          malformed_options |-> Len(input) > DhcpHeaderLen
                                /\ input[DhcpHeaderLen + 1] % 2 = 1,
          truncated_options |-> Len(input) > DhcpHeaderLen
                                /\ (input[DhcpHeaderLen + 1] \div 2) % 2 = 1]

DHCPState_new == [tx_id |-> 0, transactions |-> <<>>, events |-> 0]

DHCPTransaction_new(id, message) ==
    Tx(id, None, <<"DHCP">>, FALSE, FALSE, FALSE, <<>>, 0)

DHCP_set_event(st, event) ==
    IF Len(st.transactions) > 0
    THEN [st EXCEPT !.transactions[Len(st.transactions)].events = Append(@, event),
                    !.events = (@ + 1) % (U16_MAX + 1)]
    ELSE st

DHCP_parse(st, input) ==
    LET message == dhcp_parse(input) IN
    IF message.kind = "Ok"
    THEN LET s1 == [st EXCEPT !.tx_id = @ + 1]
             s2 == [s1 EXCEPT !.transactions =
                                Append(@, DHCPTransaction_new(s1.tx_id, message))]
             s3 == IF message.malformed_options
                   THEN DHCP_set_event(s2, "MalformedOptions") ELSE s2
             s4 == IF message.truncated_options
                   THEN DHCP_set_event(s3, "TruncatedOptions") ELSE s3
         IN  [st |-> s4, ret |-> TRUE]
    ELSE [st |-> st, ret |-> FALSE]

\* the events parse raises for a message, in the order it raises them
DHCP_raised(message) ==
    (IF message.malformed_options THEN <<"MalformedOptions">> ELSE <<>>)
    \o (IF message.truncated_options THEN <<"TruncatedOptions">> ELSE <<>>)

\* parse under a build profile.  self.events += 1 is an addition on a u16:
\* a build without overflow checks wraps, a build with them panics in the
\* set_event that finds the counter at its maximum, after the transaction was
\* pushed and the event was set on it
DHCP_parse_build(st, input, overflow_checks) ==
    LET message == dhcp_parse(input)
        raised == IF message.kind = "Ok" THEN DHCP_raised(message) ELSE <<>>
        r == DHCP_parse(st, input)
    IN  IF overflow_checks /\ st.events + Len(raised) > U16_MAX
        THEN LET k == U16_MAX - st.events + 1
             IN  [st |-> [st EXCEPT !.tx_id = @ + 1,
                                    !.transactions =
                                       Append(@, [DHCPTransaction_new(st.tx_id + 1, message)
                                                    EXCEPT !.events = Take(raised, k)]),
                                    !.events = U16_MAX],
                  ret |-> FALSE, outcome |-> "panic"]
        ELSE [st |-> r.st, ret |-> r.ret, outcome |-> "returned"]

\* the index of the first transaction with tx.tx_id == tx_id + 1, 0 when none
DHCP_find_tx(txs, id) ==
    LET hits == {i \in 1..Len(txs) : txs[i].tx_id = id + 1}
    IN  IF hits = {} THEN 0 ELSE CHOOSE i \in hits : \A j \in hits : i <= j

DHCP_get_tx(txs, id) ==
    IF DHCP_find_tx(txs, id) # 0 THEN Some(txs[DHCP_find_tx(txs, id)])
    ELSE None

DHCP_free_tx(txs, id) ==
    LET index == DHCP_find_tx(txs, id)
    IN  IF index # 0 THEN RemoveAt(txs, index) ELSE txs

\* a variant of the scan that compares with min_tx_id instead of min_tx_id + 1
RECURSIVE DHCP_iter_scan_below_min(_, _, _)
DHCP_iter_scan_below_min(txs, min_tx_id, index) ==
    IF ~(index < Len(txs)) THEN 0
    ELSE IF txs[index + 1].tx_id < min_tx_id
    THEN DHCP_iter_scan_below_min(txs, min_tx_id, index + 1)
    ELSE index + 1

RECURSIVE DHCP_iter_scan(_, _, _)
DHCP_iter_scan(txs, min_tx_id, index) ==
    IF ~(index < Len(txs)) THEN 0
    ELSE IF txs[index + 1].tx_id < min_tx_id + 1
    THEN DHCP_iter_scan(txs, min_tx_id, index + 1)
    ELSE index + 1

DHCP_get_tx_iterator(txs, min_tx_id, state) ==
    LET len == Len(txs)
        i == DHCP_iter_scan(txs, min_tx_id, state)
        index == i - 1
    IN  IF i = 0 THEN IterTuple_not_found(state)
        ELSE IterTuple_with_values(txs[i].tx_id, txs[i].tx_id - 1,
                                   (len - index) > 1, index)

-----------------------------------------------------------------------------
(* IKE (ike/ike.rs).  The wire format of the model: the ISAKMP header of    *)
(* 28 bytes: initiator SPI (1..8), responder SPI (9..16), next payload      *)
(* (17), version (18: major and minor nibble), exchange type (19), flags    *)
(* (20), message id (21..24), length (25..28); the payloads that follow     *)
(* are well formed.                                                          *)

IkeHeaderLen == 28

\* a responder SPI of zero: the message of an initiator
ZeroSpi == <<0, 0, 0, 0, 0, 0, 0, 0>>

parse_isakmp_header(i) ==
    IF Len(i) < IkeHeaderLen
    THEN [kind |-> "Incomplete", rem |-> i, maj_ver |-> 0, min_ver |-> 0,
          exch_type |-> 0, resp_spi |-> ZeroSpi, length |-> 0]
    ELSE [kind |-> "Ok", rem |-> Drop(i, IkeHeaderLen),
          maj_ver |-> i[18] \div 16, min_ver |-> i[18] % 16,
          exch_type |-> i[19], resp_spi |-> SubSeq(i, 9, 16),
          length |-> ((i[25] * 256 + i[26]) * 256 + i[27]) * 256 + i[28]]

IKEState_default == [tx_id |-> 0, transactions |-> <<>>]

IKETransaction_new == Tx(0, None, <<>>, FALSE, FALSE, FALSE, <<>>, 0)

IKE_new_tx(st) ==
    [st |-> [st EXCEPT !.tx_id = @ + 1],
     tx |-> [IKETransaction_new EXCEPT !.tx_id = st.tx_id + 1]]

\* handle_ikev1 / handle_ikev2 (ike/ikev1.rs, ike/ikev2.rs): the datagram
\* becomes one transaction of its version
handle_ikev(st, current, isakmp_header, direction) ==
    LET n == IKE_new_tx(st)
    IN  [n.st EXCEPT !.transactions =
            Append(@, [n.tx EXCEPT !.msg = <<"IKE">>,
                                   !.xid = isakmp_header.maj_ver])]

IKE_handle_input(st, input, direction) ==
    IF Len(input) = 0 THEN [st |-> st, res |-> AppLayerResult_ok]
    ELSE LET h == parse_isakmp_header(input) IN
         IF h.kind = "Ok"
         THEN IF h.maj_ver # 1 /\ h.maj_ver # 2
              THEN [st |-> st, res |-> AppLayerResult_err]
              ELSE [st |-> handle_ikev(st, h.rem, h, direction),
                    res |-> AppLayerResult_ok]
         ELSE [st |-> st, res |-> AppLayerResult_err]

IKE_get_tx(txs, id) ==
    IF position(txs, id) # 0 THEN Some(txs[position(txs, id)]) ELSE None

IKE_free_tx(txs, id, debug_assertions) ==
    LET tx == position(txs, id) IN
    IF tx = 0 /\ debug_assertions THEN [txs |-> txs, outcome |-> "panic"]
    ELSE IF tx # 0 THEN [txs |-> RemoveAt(txs, tx), outcome |-> "returned"]
    ELSE [txs |-> txs, outcome |-> "returned"]

RECURSIVE IKE_iter_scan(_, _, _)
IKE_iter_scan(txs, min_tx_id, index) ==
    IF ~(index < Len(txs)) THEN 0
    ELSE IF txs[index + 1].tx_id < min_tx_id + 1
    THEN IKE_iter_scan(txs, min_tx_id, index + 1)
    ELSE index + 1

IKE_tx_iterator(txs, min_tx_id, state) ==
    LET len == Len(txs)
        i == IKE_iter_scan(txs, min_tx_id, state)
        index == i - 1
    IN  IF i = 0 THEN IterTuple_not_found(state)
        ELSE IterTuple_with_values(txs[i].tx_id, txs[i].tx_id - 1,
                                   (len - index) > 1, index)

-----------------------------------------------------------------------------
(* KRB5 (krb/krb5.rs).  The wire format of the model: byte 1 carries the    *)
(* BER class in bits 6..7 and the tag in bits 0..4, byte 2 the length of    *)
(* the body; the first body byte of a reply is its encryption type (its     *)
(* error code for KRB-ERROR).  A TCP record is a 4-byte big-endian record   *)
(* mark followed by one message.                                             *)

DerHeaderLen == 2
BerClass_Application == 1
\* a length octet that is not a valid DER length
DerInvalidLength == 255

der_read_element_header(i) ==
    IF Len(i) < DerHeaderLen
    THEN [kind |-> "Incomplete", class |-> 0, tag |-> 0, len |-> 0]
    ELSE IF i[2] = DerInvalidLength
    THEN [kind |-> "Error", class |-> 0, tag |-> 0, len |-> 0]
    ELSE [kind |-> "Ok", class |-> (i[1] \div 64) % 4, tag |-> i[1] % 32,
          len |-> i[2]]

\* krb5_parser::parse_as_rep / parse_tgs_rep / parse_krb_error: the body has
\* to be there in full and to hold its first field
krb5_parser_parse(i) ==
    IF Len(i) >= DerHeaderLen + 1 /\ i[2] >= 1 /\ Len(i) >= DerHeaderLen + i[2]
    THEN [kind |-> "Ok", etype |-> i[DerHeaderLen + 1]]
    ELSE [kind |-> "Error", etype |-> 0]

\* AES128/256_CTS_HMAC_SHA1_96 (17, 18), AES128_CTS_HMAC_SHA256_128 (19),
\* AES256_CTS_HMAC_SHA384_192 (20), CAMELLIA128/256_CTS_CMAC (25, 26)
test_weak_encryption(alg) == alg \notin {17, 18, 19, 20, 25, 26}

KRB5State_new ==
    [tx_id |-> 0, transactions |-> <<>>, req_id |-> 0,
     record_ts |-> 0, defrag_buf_ts |-> <<>>,
     record_tc |-> 0, defrag_buf_tc |-> <<>>]

KRB5Transaction_new(id) == Tx(id, None, <<0>>, FALSE, FALSE, FALSE, <<>>, 0)

KRB5_new_tx(st) ==
    [st |-> [st EXCEPT !.tx_id = @ + 1], tx |-> KRB5Transaction_new(st.tx_id + 1)]

\* a variant that sets the event on the oldest stored transaction
KRB5_set_event_first(st, event) ==
    IF Len(st.transactions) > 0
    THEN [st EXCEPT !.transactions[1].events = Append(@, event)]
    ELSE st

KRB5_set_event(st, event) ==
    IF Len(st.transactions) > 0
    THEN [st EXCEPT !.transactions[Len(st.transactions)].events = Append(@, event)]
    ELSE st

\* the arms of tags 11 and 13: a reply whose body parses becomes a transaction
kdc_rep_arm(st, i, msg_type) ==
    LET res == krb5_parser_parse(i) IN
    IF res.kind = "Ok"
    THEN LET n == KRB5_new_tx(st)
             s1 == [n.st EXCEPT !.transactions =
                        Append(@, [n.tx EXCEPT !.msg = <<msg_type>>,
                                               !.xid = res.etype])]
             s2 == IF test_weak_encryption(res.etype)
                   THEN KRB5_set_event(s1, "WeakEncryption") ELSE s1
         IN  [s2 EXCEPT !.req_id = 0]
    ELSE [st EXCEPT !.req_id = 0]

\* the arm of tag 30: the transaction takes the pending request's type
krb_error_arm(st, i) ==
    LET res == krb5_parser_parse(i) IN
    IF res.kind = "Ok"
    THEN LET n == KRB5_new_tx(st)
         IN  [n.st EXCEPT !.transactions =
                    Append(@, [n.tx EXCEPT !.msg = <<st.req_id>>,
                                           !.xid = res.etype]),
                          !.req_id = 0]
    ELSE [st EXCEPT !.req_id = 0]

KRB5_parse(st, i) ==
    LET hdr == der_read_element_header(i) IN
    IF hdr.kind = "Ok"
    THEN IF hdr.class # BerClass_Application THEN [st |-> st, ret |-> 0]
         ELSE [ret |-> 0,
               st |-> CASE hdr.tag \in {10, 12, 14} -> [st EXCEPT !.req_id = hdr.tag]
                        [] hdr.tag \in {11, 13} -> kdc_rep_arm(st, i, hdr.tag)
                        [] hdr.tag = 15 -> [st EXCEPT !.req_id = 0]
                        [] hdr.tag = 30 -> krb_error_arm(st, i)
                        [] OTHER -> st]
    ELSE [st |-> KRB5_set_event(st, "MalformedData"), ret |-> -1]

KRB5_get_tx_by_id(txs, id) ==
    IF position(txs, id) # 0 THEN Some(txs[position(txs, id)]) ELSE None

KRB5_free_tx(txs, id, debug_assertions) ==
    LET tx == position(txs, id) IN
    IF tx = 0 /\ debug_assertions THEN [txs |-> txs, outcome |-> "panic"]
    ELSE IF tx # 0 THEN [txs |-> RemoveAt(txs, tx), outcome |-> "returned"]
    ELSE [txs |-> txs, outcome |-> "returned"]

\* nom's be_u32 on a streaming input: the record mark of a TCP record
RecordMarkLen == 4

be_u32(i) ==
    IF Len(i) < RecordMarkLen THEN [kind |-> "Incomplete", rem |-> i, value |-> 0]
    ELSE [kind |-> "Ok", rem |-> Drop(i, RecordMarkLen),
          value |-> ((i[1] * 256 + i[2]) * 256 + i[3]) * 256 + i[4]]

\* the sanity check of the TCP entry points: the bytes one record may buffer
KRB5_DEFRAG_CAP == 100000

RECURSIVE krb5_request_tcp_loop(_, _)
krb5_request_tcp_loop(st, cur_i) ==
    IF Len(cur_i) = 0 THEN [st |-> st, res |-> AppLayerResult_ok]
    ELSE
    LET mark == be_u32(cur_i) IN
    CASE st.record_ts = 0 /\ mark.kind = "Incomplete" ->
            [st |-> [st EXCEPT !.defrag_buf_ts = @ \o cur_i],
             res |-> AppLayerResult_ok]
      [] st.record_ts = 0 /\ mark.kind \notin {"Ok", "Incomplete"} ->
            [st |-> st, res |-> AppLayerResult_err]
      [] OTHER ->
            LET s1 == IF st.record_ts = 0
                      THEN [st EXCEPT !.record_ts = mark.value] ELSE st
                cur1 == IF st.record_ts = 0 THEN mark.rem ELSE cur_i
            IN  IF Len(cur1) >= s1.record_ts
                THEN LET p == KRB5_parse(s1, cur1) IN
                     IF p.ret < 0 THEN [st |-> p.st, res |-> AppLayerResult_err]
                     ELSE \* state.record_ts = 0; cur_i = &cur_i[state.record_ts..]
                          LET s2 == [p.st EXCEPT !.record_ts = 0]
                          IN  krb5_request_tcp_loop(s2, Drop(cur1, s2.record_ts))
                ELSE [st |-> [s1 EXCEPT !.defrag_buf_ts = @ \o cur1],
                      res |-> AppLayerResult_ok]

krb5_parse_request_tcp(st, buf) ==
    IF st.record_ts = 0 THEN krb5_request_tcp_loop(st, buf)
    ELSE IF Len(st.defrag_buf_ts) + Len(buf) > KRB5_DEFRAG_CAP
    THEN [st |-> st, res |-> AppLayerResult_err]
    ELSE \* v = defrag_buf_ts.split_off(0); v.extend_from_slice(buf)
         krb5_request_tcp_loop([st EXCEPT !.defrag_buf_ts = <<>>],
                               st.defrag_buf_ts \o buf)

RECURSIVE krb5_response_tcp_loop(_, _)
krb5_response_tcp_loop(st, cur_i) ==
    IF Len(cur_i) = 0 THEN [st |-> st, res |-> AppLayerResult_ok]
    ELSE
    LET mark == be_u32(cur_i) IN
    CASE st.record_tc = 0 /\ mark.kind = "Incomplete" ->
            [st |-> [st EXCEPT !.defrag_buf_tc = @ \o cur_i],
             res |-> AppLayerResult_ok]
      [] st.record_tc = 0 /\ mark.kind \notin {"Ok", "Incomplete"} ->
            [st |-> st, res |-> AppLayerResult_ok]
      [] OTHER ->
            LET s1 == IF st.record_tc = 0
                      THEN [st EXCEPT !.record_tc = mark.value] ELSE st
                cur1 == IF st.record_tc = 0 THEN mark.rem ELSE cur_i
            IN  IF Len(cur1) >= s1.record_tc
                THEN LET p == KRB5_parse(s1, cur1) IN
                     IF p.ret < 0 THEN [st |-> p.st, res |-> AppLayerResult_err]
                     ELSE LET s2 == [p.st EXCEPT !.record_tc = 0]
                          IN  krb5_response_tcp_loop(s2, Drop(cur1, s2.record_tc))
                ELSE [st |-> [s1 EXCEPT !.defrag_buf_tc = @ \o cur1],
                      res |-> AppLayerResult_ok]

\* a variant of krb5_parse_response_tcp that forgets the outstanding record
\* length and reads a length prefix again
krb5_parse_response_tcp_rereads(st, buf) ==
    krb5_response_tcp_loop([st EXCEPT !.record_tc = 0, !.defrag_buf_tc = <<>>],
                           st.defrag_buf_tc \o buf)

\* a variant with one defragmentation buffer for the two directions
krb5_parse_response_tcp_one_buffer(st, buf) ==
    IF st.record_tc = 0 THEN krb5_response_tcp_loop(st, buf)
    ELSE IF Len(st.defrag_buf_tc) + Len(buf) > KRB5_DEFRAG_CAP
    THEN [st |-> st, res |-> AppLayerResult_err]
    ELSE krb5_response_tcp_loop([st EXCEPT !.defrag_buf_tc = <<>>,
                                           !.defrag_buf_ts = <<>>],
                                st.defrag_buf_ts \o st.defrag_buf_tc \o buf)

krb5_parse_response_tcp(st, buf) ==
    IF st.record_tc = 0 THEN krb5_response_tcp_loop(st, buf)
    ELSE IF Len(st.defrag_buf_tc) + Len(buf) > KRB5_DEFRAG_CAP
    THEN [st |-> st, res |-> AppLayerResult_err]
    ELSE krb5_response_tcp_loop([st EXCEPT !.defrag_buf_tc = <<>>],
                                st.defrag_buf_tc \o buf)

\* The while loop of the two entry points, one iteration at a time.  dir
\* is "ts" for rs_krb5_parse_request_tcp and "tc" for
\* rs_krb5_parse_response_tcp; a round ends the call (done, with res) or hands
\* the bytes it leaves to the next round.
RecordField(dir) == IF dir = "ts" THEN "record_ts" ELSE "record_tc"
DefragField(dir) == IF dir = "ts" THEN "defrag_buf_ts" ELSE "defrag_buf_tc"

\* a variant whose be_u32 arm does not go on with the rest: cur_i stays
krb5_tcp_loop_body_keeps_mark(dir, st, cur_i) ==
    LET rec == RecordField(dir)
        buf == DefragField(dir)
        mark == be_u32(cur_i)
    IN  IF st[rec] = 0 /\ mark.kind # "Ok"
        THEN [done |-> TRUE, res |-> AppLayerResult_ok, cur_i |-> cur_i,
              st |-> [st EXCEPT ![buf] = @ \o cur_i]]
        ELSE LET s1 == IF st[rec] = 0 THEN [st EXCEPT ![rec] = mark.value]
                       ELSE st
             IN  IF Len(cur_i) >= s1[rec]
                 THEN LET p == KRB5_parse(s1, cur_i) IN
                      IF p.ret < 0
                      THEN [done |-> TRUE, res |-> AppLayerResult_err,
                            cur_i |-> cur_i, st |-> p.st]
                      ELSE [done |-> FALSE, res |-> AppLayerResult_ok,
                            cur_i |-> cur_i, st |-> [p.st EXCEPT ![rec] = 0]]
                 ELSE [done |-> TRUE, res |-> AppLayerResult_ok,
                       cur_i |-> cur_i, st |-> [s1 EXCEPT ![buf] = @ \o cur_i]]

krb5_tcp_loop_body(dir, st, cur_i) ==
    LET rec == RecordField(dir)
        buf == DefragField(dir)
        mark == be_u32(cur_i)
    IN  IF st[rec] = 0 /\ mark.kind = "Incomplete"
        THEN \* the bytes are kept for the next call
             [done |-> TRUE, res |-> AppLayerResult_ok, cur_i |-> cur_i,
              st |-> [st EXCEPT ![buf] = @ \o cur_i]]
        ELSE IF st[rec] = 0 /\ mark.kind # "Ok"
        THEN \* "reading record mark failed!"
             [done |-> TRUE, cur_i |-> cur_i, st |-> st,
              res |-> IF dir = "ts" THEN AppLayerResult_err
                      ELSE AppLayerResult_ok]
        ELSE LET s1 == IF st[rec] = 0 THEN [st EXCEPT ![rec] = mark.value]
                       ELSE st
                 cur1 == IF st[rec] = 0 THEN mark.rem ELSE cur_i
             IN  IF Len(cur1) >= s1[rec]
                 THEN LET p == KRB5_parse(s1, cur1) IN
                      IF p.ret < 0
                      THEN [done |-> TRUE, res |-> AppLayerResult_err,
                            cur_i |-> cur1, st |-> p.st]
                      ELSE \* state.record = 0; cur_i = &cur_i[state.record..]
                           [done |-> FALSE, res |-> AppLayerResult_ok,
                            cur_i |-> Drop(cur1, 0),
                            st |-> [p.st EXCEPT ![rec] = 0]]
                 ELSE [done |-> TRUE, res |-> AppLayerResult_ok,
                       cur_i |-> cur1, st |-> [s1 EXCEPT ![buf] = @ \o cur1]]

\* the loop run for at most fuel rounds: whether it returned, what it
\* returned, the state it left, and the number of unprocessed bytes each
\* round started with
RECURSIVE krb5_tcp_rounds(_, _, _, _)
krb5_tcp_rounds(dir, st, cur_i, fuel) ==
    IF Len(cur_i) = 0
    THEN [returned |-> TRUE, res |-> AppLayerResult_ok, st |-> st, lens |-> <<>>]
    ELSE IF fuel = 0
    THEN [returned |-> FALSE, res |-> AppLayerResult_ok, st |-> st, lens |-> <<>>]
    ELSE LET r == krb5_tcp_loop_body(dir, st, cur_i) IN
         IF r.done
         THEN [returned |-> TRUE, res |-> r.res, st |-> r.st,
               lens |-> <<Len(cur_i)>>]
         ELSE LET t == krb5_tcp_rounds(dir, r.st, r.cur_i, fuel - 1)
              IN  [t EXCEPT !.lens = <<Len(cur_i)>> \o @]

-----------------------------------------------------------------------------
(* The probing parsers.  A probe returns the protocol it confirms,          *)
(* ALPROTO_FAILED or ALPROTO_UNKNOWN; rdir is the byte the host passes for  *)
(* a direction the probe may signal.                                         *)

\* mqtt/parser.rs parse_fixed_header: the flag byte and the remaining length
parse_fixed_header(buf) ==
    IF Len(buf) < FixedHeaderLen
    THEN [kind |-> "Incomplete", message_type |-> "", qos_level |-> 0]
    ELSE [kind |-> "Ok", message_type |-> MQTTTypeCode(buf[1]),
          qos_level |-> (buf[1] \div 2) % 4]

mqtt_probing_parser(buf) ==
    LET hdr == parse_fixed_header(buf) IN
    CASE hdr.kind = "Ok" ->
            IF hdr.message_type = "UNASSIGNED" THEN "ALPROTO_FAILED"
            ELSE IF hdr.qos_level > 2 THEN "ALPROTO_FAILED"
            ELSE "ALPROTO_MQTT"
      [] hdr.kind = "Incomplete" -> "ALPROTO_UNKNOWN"
      [] OTHER -> "ALPROTO_FAILED"

ntp_probing(slice) ==
    LET msg == parse_ntp(slice) IN
    CASE msg.kind = "Ok" ->
            IF msg.version = 3 \/ msg.version = 4 THEN "ALPROTO_NTP"
            ELSE "ALPROTO_FAILED"
      [] msg.kind = "Incomplete" -> "ALPROTO_UNKNOWN"
      [] OTHER -> "ALPROTO_FAILED"

dhcp_probing_parser(input) ==
    IF Len(input) < DHCP_MIN_FRAME_LEN THEN "ALPROTO_UNKNOWN"
    ELSE IF parse_header(input).kind = "Ok" THEN "ALPROTO_DHCP"
    ELSE "ALPROTO_UNKNOWN"

\* a variant of probe that signals the direction before it checks an IKEv2
\* header
probe_signals_first(input, direction, rdir) ==
    LET h == parse_isakmp_header(input)
        signalled == IF h.resp_spi = ZeroSpi /\ direction # "STREAM_TOSERVER"
                     THEN "STREAM_TOSERVER" ELSE rdir
    IN  IF h.kind # "Ok" THEN [ok |-> FALSE, rdir |-> rdir]
        ELSE IF h.maj_ver = 1 THEN [ok |-> TRUE, rdir |-> signalled]
        ELSE IF h.maj_ver = 2
        THEN [ok |-> h.min_ver = 0 /\ h.exch_type \in 34..37
                     /\ h.length = Len(input),
              rdir |-> signalled]
        ELSE [ok |-> FALSE, rdir |-> rdir]

\* probe (ike.rs): whether the input looks like IKE, and the byte rdir
\* points to after the call
probe(input, direction, rdir) ==
    LET h == parse_isakmp_header(input)
        signalled == IF h.resp_spi = ZeroSpi /\ direction # "STREAM_TOSERVER"
                     THEN "STREAM_TOSERVER" ELSE rdir
    IN  IF h.kind # "Ok" THEN [ok |-> FALSE, rdir |-> rdir]
        ELSE IF h.maj_ver = 1 THEN [ok |-> TRUE, rdir |-> signalled]
        ELSE IF h.maj_ver = 2
        THEN IF h.min_ver # 0 THEN [ok |-> FALSE, rdir |-> rdir]
             ELSE IF h.exch_type < 34 \/ h.exch_type > 37
             THEN [ok |-> FALSE, rdir |-> rdir]
             ELSE IF h.length # Len(input) THEN [ok |-> FALSE, rdir |-> rdir]
             ELSE [ok |-> TRUE, rdir |-> signalled]
        ELSE [ok |-> FALSE, rdir |-> rdir]

\* at least the ISAKMP header must be there
IKE_PROBE_MIN_LEN == 28

ike_probing_parser(input, direction, rdir) ==
    IF Len(input) < IKE_PROBE_MIN_LEN
    THEN [alproto |-> "ALPROTO_FAILED", rdir |-> rdir]
    ELSE LET r == probe(input, direction, rdir)
         IN  [alproto |-> IF r.ok THEN "ALPROTO_IKE" ELSE "ALPROTO_FAILED",
              rdir |-> r.rdir]

\* slice.len() <= 10 / slice.len() <= 14: too short for a Kerberos message
KRB5_PROBE_MAX_SHORT == 10
KRB5_PROBE_MAX_SHORT_TCP == 14
\* the tag numbers of Kerberos messages end at 30
KRB5_MAX_TAG == 30
\* 0x30: a DER SEQUENCE
DER_SEQUENCE == 48
\* protocol implementations forbid very large requests
KRB5_MAX_RECORD == 16384

krb5_probing_parser(slice) ==
    IF Len(slice) <= KRB5_PROBE_MAX_SHORT THEN "ALPROTO_FAILED"
    ELSE LET hdr == der_read_element_header(slice)
             rem == Drop(slice, DerHeaderLen)
         IN
         CASE hdr.kind = "Ok" ->
                 IF hdr.class # BerClass_Application THEN "ALPROTO_FAILED"
                 ELSE IF hdr.tag > KRB5_MAX_TAG THEN "ALPROTO_FAILED"
                 ELSE IF rem = <<>> \/ rem[1] # DER_SEQUENCE THEN "ALPROTO_FAILED"
                 ELSE LET rem2 == Drop(rem, DerHeaderLen) IN
                      IF /\ der_read_element_header(rem).kind = "Ok"
                         /\ Len(rem2) > 5
                         /\ <<rem2[3], rem2[4], rem2[5]>> = <<2, 1, 5>>
                      THEN "ALPROTO_KRB5" ELSE "ALPROTO_FAILED"
           [] hdr.kind = "Incomplete" -> "ALPROTO_UNKNOWN"
           [] OTHER -> "ALPROTO_FAILED"

krb5_probing_parser_tcp(slice) ==
    IF Len(slice) <= KRB5_PROBE_MAX_SHORT_TCP THEN "ALPROTO_FAILED"
    ELSE LET mark == be_u32(slice) IN
         CASE mark.kind = "Ok" ->
                 IF mark.value > KRB5_MAX_RECORD THEN "ALPROTO_FAILED"
                 ELSE krb5_probing_parser(mark.rem)
           [] mark.kind = "Incomplete" -> "ALPROTO_UNKNOWN"
           [] OTHER -> "ALPROTO_FAILED"

-----------------------------------------------------------------------------
(* The traffic the host delivers *)

Hdr(code, qos) == code * 16 + qos * 2

\* MQTT message identifiers on the wire
MsgIds == {1, 2}

\* every message type, whole: the messages of a session
WireMsgs ==
    {<<Hdr(c, 0), 1, 1>> : c \in {4, 5, 6, 7, 9, 11}}
    \cup {<<Hdr(3, q), 1, id>> : q \in {1, 2}, id \in MsgIds}
    \cup {<<Hdr(c, 1), 1, 1>> : c \in {8, 10}}
    \cup {<<Hdr(c, 3), 1, 1>> : c \in {3, 8}}         \* PUBLISH, SUBSCRIBE: QoS 3
    \cup {<<Hdr(1, 0), 1, v>> : v \in {4, 5}}         \* CONNECT, protocol level
    \cup {<<Hdr(c, 0), 0>> : c \in {2, 12, 13, 14, 15, 0}}
    \cup {<<Hdr(3, 0), 0>>}                            \* PUBLISH, QoS 0
    \cup {<<Hdr(4, 0), 0>>}                            \* PUBACK without its id
    \cup {<<Hdr(3, 0), cfg_max_msg_len + 1, 0, 0, 0>>} \* longer than the maximum

\* the messages of a session's exchanges: what the client sends and what the
\* broker sends
ClientMsgs ==
    {<<Hdr(1, 0), 1, 4>>}
    \cup {<<Hdr(3, 1), 1, 1>>, <<Hdr(3, 2), 1, U16_MAX>>}
    \cup {<<Hdr(c, 1), 1, 1>> : c \in {8, 10}}
    \cup {<<Hdr(c, 0), 1, 1>> : c \in {4, 5, 6, 7}}
ServerMsgs ==
    {<<Hdr(2, 0), 0>>}
    \cup {<<Hdr(3, 1), 1, 1>>}
    \cup {<<Hdr(c, 0), 1, 1>> : c \in {4, 5, 6, 7, 9, 11}}

\* the complete, well-formed single messages among them
WellFormedMqtt == WireMsgs \ {<<Hdr(4, 0), 0>>}

\* byte streams the host cuts into chunks at any point: a CONNECT, a
\* PINGREQ followed by a PUBLISH, and a PUBLISH longer than the maximum
\* followed by a PINGREQ
StreamWires ==
    {<<Hdr(1, 0), 1, 4>>,
     <<Hdr(12, 0), 0, Hdr(3, 1), 1, 1>>,
     <<Hdr(3, 0), cfg_max_msg_len + 1, 0, 0, 0, Hdr(12, 0), 0>>}

\* what the host delivers next in one direction of a stream: a chunk of the
\* bytes under way (of a new wire when none are) and the bytes left behind
Chunks(wire, Wires, whole) ==
    LET W == IF wire = <<>> THEN Wires ELSE {wire}
    IN  UNION {{<<Take(w, k), Drop(w, k)>> :
                  k \in IF whole THEN {Len(w)} ELSE 1..Len(w)} : w \in W}

\* buffers of several whole messages, in either direction: an establishing
\* CONNECT with its CONNACK; a CONNACK and a PUBACK; a CONNECT, a PUBLISH
\* with QoS 3 and a message of an unassigned type; a PUBLISH with id 1 and
\* two PUBACK with id 1
AnomalyWires ==
    {<<Hdr(1, 0), 1, 4>> \o <<Hdr(2, 0), 0>>,
     <<Hdr(2, 0), 0>> \o <<Hdr(4, 0), 1, 1>>,
     <<Hdr(1, 0), 1, 4>> \o <<Hdr(3, 3), 1, 1>> \o <<Hdr(0, 0), 0>>,
     <<Hdr(3, 1), 1, 1>> \o <<Hdr(4, 0), 1, 1>> \o <<Hdr(4, 0), 1, 1>>}

\* the messages that fill the store
StoreMsgs == {<<Hdr(1, 0), 1, 4>>, <<Hdr(2, 0), 0>>, <<Hdr(12, 0), 0>>}

\* NTP: client and symmetric-active requests, a server reply, a version the
\* decoder rejects and a truncated datagram
WellFormedNtp ==
    {<<3 * 8 + 3, 7>>, <<4 * 8 + 3, 5>>, <<4 * 8 + 1, 7>>, <<4 * 8 + 4, 9>>}
NtpInputs == WellFormedNtp \cup {<<1 * 8 + 3, 7>>, <<3 * 8 + 3>>}

\* DHCP: without options, with well-formed, malformed and truncated options,
\* and a truncated header
DhcpFrame(opcode, options) ==
    <<opcode>> \o [i \in 1..(DhcpHeaderLen - 1) |-> 0] \o options
WellFormedDhcp == {DhcpFrame(1, <<>>), DhcpFrame(1, <<0>>)}
DhcpInputs ==
    WellFormedDhcp
    \cup {DhcpFrame(1, <<1>>), DhcpFrame(1, <<2>>), DhcpFrame(1, <<3>>),
          Take(DhcpFrame(1, <<>>), DHCP_MIN_FRAME_LEN)}

\* IKE: an IKEv1 and an IKEv2 datagram, an unsupported major version, a
\* truncated header and the empty datagram
IsakmpHeader(resp_spi, maj_ver, min_ver, exch_type, length) ==
    <<0, 0, 0, 0, 0, 0, 0, 1>> \o <<0, 0, 0, 0, 0, 0, 0, resp_spi>>
    \o <<0, maj_ver * 16 + min_ver, exch_type, 0>>
    \o <<0, 0, 0, 0>> \o <<0, 0, 0, length>>
WellFormedIke ==
    {IsakmpHeader(0, 1, 0, 2, IkeHeaderLen), IsakmpHeader(1, 2, 0, 34, IkeHeaderLen)}
IkeInputs ==
    WellFormedIke
    \cup {IsakmpHeader(0, 3, 0, 34, IkeHeaderLen),
          Take(IsakmpHeader(0, 1, 0, 2, IkeHeaderLen), IkeHeaderLen - 1), <<>>}

\* KRB5 messages: byte 1 is 64 + 32 + tag for an APPLICATION element
KrbMsg(tag, body) == <<96 + tag, Len(body)>> \o body
WellFormedKrb5 ==
    {KrbMsg(10, <<>>), KrbMsg(11, <<18>>), KrbMsg(11, <<3>>), KrbMsg(13, <<18>>),
     KrbMsg(30, <<6, 0>>)}
Krb5Inputs ==
    WellFormedKrb5 \cup {KrbMsg(12, <<>>), KrbMsg(14, <<>>), KrbMsg(15, <<>>),
                         KrbMsg(20, <<>>), <<48, 0>>, <<96 + 11>>, <<96 + 11, 1>>,
                         <<96 + 11, DerInvalidLength>>}

\* KRB5 over TCP: the records of the requests a client sends and of the
\* replies a KDC sends, which the host cuts into chunks at any point
Record(m) == <<0, 0, 0, Len(m)>> \o m
RequestRecords == {Record(KrbMsg(10, <<>>))}
ReplyRecords == {Record(KrbMsg(11, <<18>>)), Record(KrbMsg(30, <<6, 0>>))}
WellFormedRecords == RequestRecords \cup ReplyRecords

\* bytes one direction of a KRB5 TCP flow buffers before the host stops
MaxBuf == 3

\* two flows side by side: a CONNECT and a PINGREQ, one transaction a flow
FlowMsgs == {<<Hdr(1, 0), 1, 4>>, <<Hdr(12, 0), 0>>}
MaxFlowTx == 1

\* streams of two records back to back: two requests of a client, and an
\* AS-REP followed by a KRB-ERROR of a KDC
RequestStreams ==
    RequestRecords \cup {Record(KrbMsg(10, <<>>)) \o Record(KrbMsg(12, <<>>))}
ReplyStreams ==
    ReplyRecords \cup {Record(KrbMsg(11, <<18>>)) \o Record(KrbMsg(30, <<6, 0>>))}
\* bytes one direction buffers of such streams before the host stops
MaxStreamBuf == 5

\* a client or a KDC that stalls: the bytes of one record of 0x01010101
\* bytes, delivered in chunks of 10000, 20000, 40000 and 100005 bytes
Fill(n) == [i \in 1..n |-> 1]
StallChunks == {Fill(10000), Fill(20000), Fill(40000), Fill(100005)}
\* whole chunks, none left behind
Whole(chunks) == {<<c, <<>>>> : c \in chunks}
\* bytes one direction buffers of a stalled record before the host stops
MaxStallBuf == 150000

\* the first bytes of a flow a probe is given.  MQTT: a CONNECT, a PUBLISH,
\* a PINGREQ, a message of an unassigned type, a PUBLISH with QoS 3 and the
\* first byte of a CONNECT
MqttProbeValid == {<<Hdr(1, 0), 1, 4>>, <<Hdr(3, 1), 1, 1>>, <<Hdr(12, 0), 0>>}
MqttProbeInputs ==
    MqttProbeValid \cup {<<Hdr(0, 0), 0>>, <<Hdr(3, 3), 1, 1>>, <<Hdr(1, 0)>>}

\* DHCP: the datagrams of the parser, a frame with an opcode that is neither
\* BOOTREQUEST nor BOOTREPLY, and a frame one byte short of the minimum
DhcpProbeInputs ==
    DhcpInputs \cup {DhcpFrame(9, <<>>),
                     Take(DhcpFrame(1, <<>>), DHCP_MIN_FRAME_LEN - 1)}

\* IKE: IKEv1 and IKEv2 headers from an initiator and from a responder,
\* headers whose length field differs from the datagram's length, IKEv2
\* with a minor version and with exchange types next to the valid range,
\* an unsupported major version, and a header one byte short
IkeProbeValid ==
    {IsakmpHeader(spi, 1, 0, 2, IkeHeaderLen) : spi \in {0, 1}}
    \cup {IsakmpHeader(spi, 2, 0, x, IkeHeaderLen) : spi \in {0, 1}, x \in {34, 37}}
IkeProbeInputs ==
    IkeProbeValid
    \cup {IsakmpHeader(0, v, 0, 34, IkeHeaderLen + 1) : v \in {1, 2}}
    \cup {IsakmpHeader(0, 2, 1, 34, IkeHeaderLen)}
    \cup {IsakmpHeader(0, 2, 0, x, IkeHeaderLen) : x \in {33, 38}}
    \cup {IsakmpHeader(0, 3, 0, 34, IkeHeaderLen)}
    \cup {Take(IsakmpHeader(0, 1, 0, 2, IkeHeaderLen), IkeHeaderLen - 1)}

\* KRB5: an APPLICATION element that holds a SEQUENCE whose first field is
\* the version: pvno [1] INTEGER 5
Krb5ProbeMsg(first, seq, pvno) ==
    <<first, 9, seq, 7, 161, 3, 2, 1, pvno, 0, 0>>
Krb5ProbeValid == {Krb5ProbeMsg(96 + 10, DER_SEQUENCE, 5)}
Krb5ProbeInputs ==
    Krb5ProbeValid
    \cup {Krb5ProbeMsg(32 + 10, DER_SEQUENCE, 5),    \* not an APPLICATION element
          Krb5ProbeMsg(96 + 31, DER_SEQUENCE, 5),    \* tag 31
          Krb5ProbeMsg(96 + 10, DER_SEQUENCE + 1, 5),
          Krb5ProbeMsg(96 + 10, DER_SEQUENCE, 4),
          <<96 + 10, DerInvalidLength>> \o Drop(Krb5ProbeMsg(96 + 10, DER_SEQUENCE, 5), 2),
          Take(Krb5ProbeMsg(96 + 10, DER_SEQUENCE, 5), KRB5_PROBE_MAX_SHORT)}

Krb5TcpProbeValid == {Record(m) : m \in Krb5ProbeValid}
Krb5TcpProbeInputs ==
    {Record(m) : m \in Krb5ProbeInputs}
    \cup {<<0, 1, 0, 0>> \o m : m \in Krb5ProbeValid}   \* a record of 65536 bytes
    \cup {Take(Record(m), KRB5_PROBE_MAX_SHORT_TCP) : m \in Krb5ProbeValid}

Directions == {"STREAM_TOSERVER", "STREAM_TOCLIENT"}
\* what rdir points to before the call
RdirValues == {"none", "STREAM_TOSERVER", "STREAM_TOCLIENT"}

-----------------------------------------------------------------------------
(* The host: one record per call it makes *)

NoRet == IterTuple_not_found(0)

\* a parse call: its input, how many of its leading bytes were held back
\* after an Incomplete, the skip count it started with, how it ended and the
\* AppLayerResult it returned
ParseCall(op, input, held, preskip, outcome, res, trunc, handled) ==
    [op |-> op, input |-> input, held |-> held, preskip |-> preskip,
     outcome |-> outcome, status |-> res.status, consumed |-> res.consumed,
     needed |-> res.needed, trunc |-> trunc, handled |-> handled,
     arg |-> <<>>, ret |-> NoRet, count |-> 0, released |-> {}]

\* a call on the transaction store: its arguments and what it returned
StoreCall(op, arg, outcome, ret) ==
    [op |-> op, input |-> <<>>, held |-> 0, preskip |-> 0,
     outcome |-> outcome, status |-> 0, consumed |-> 0, needed |-> 0,
     trunc |-> FALSE, handled |-> 0, arg |-> arg, ret |-> ret, count |-> 0,
     released |-> {}]

ParseOps ==
    {"rs_mqtt_parse_request", "rs_mqtt_parse_response", "rs_ntp_parse_request",
     "rs_ntp_parse_response", "rs_dhcp_parse", "rs_ike_parse_request",
     "rs_ike_parse_response", "rs_krb5_parse_request", "rs_krb5_parse_response",
     "rs_krb5_parse_request_tcp", "rs_krb5_parse_response_tcp"}

\* the host stops calling the parser of a flow after an Error; a call that
\* panicked or never returns ends the process
AfterParse(outcome, res) ==
    IF outcome # "returned" THEN outcome
    ELSE IF is_err(res) THEN "error" ELSE "active"

\* the stream engine keeps the unconsumed tail of an Incomplete call and
\* delivers it again in front of the bytes that arrive next
HeldAfter(input, outcome, res) ==
    IF outcome = "returned" /\ is_incomplete(res) /\ res.consumed <= Len(input)
    THEN Drop(input, res.consumed) ELSE <<>>

\* the iterator loop of the host
WalkIdle == [active |-> FALSE, min_tx_id |-> 0, state |-> 0, out |-> <<>>,
             from |-> <<0, 0>>]

\* the state rs_<proto>_state_new leaves for a flow of protocol p
NewFlow(p) ==
    [proto |-> p, tx_id |-> 0, transactions |-> <<>>, events |-> 0,
     protocol_version |-> 0, connected |-> FALSE, skip_request |-> 0,
     skip_response |-> 0, req_id |-> 0, record_ts |-> 0,
     defrag_buf_ts |-> <<>>, record_tc |-> 0, defrag_buf_tc |-> <<>>,
     pstate |-> "active", held_ts |-> <<>>, held_tc |-> <<>>,
     wire_ts |-> <<>>, wire_tc |-> <<>>, walk |-> WalkIdle,
     last |-> StoreCall("state_new", <<>>, "returned", NoRet)]

\* the host works on one flow only
NoFlow == NewFlow("none")

Alive == pstate \in {"active", "error"}

MqttState ==
    [tx_id |-> tx_id, protocol_version |-> protocol_version,
     transactions |-> transactions, connected |-> connected,
     skip_request |-> skip_request, skip_response |-> skip_response,
     max_msg_len |-> cfg_max_msg_len]

\* a variant that keeps the transaction counter in a static of the process,
\* as MAX_MSG_LEN is kept: every flow of the process sees the count
SetMqttState_process_wide(st) ==
    /\ tx_id' = st.tx_id
    /\ protocol_version' = st.protocol_version
    /\ transactions' = st.transactions
    /\ connected' = st.connected
    /\ skip_request' = st.skip_request
    /\ skip_response' = st.skip_response
    /\ peer' = IF peer = NoFlow THEN peer ELSE [peer EXCEPT !.tx_id = st.tx_id]
    /\ UNCHANGED <<proto, events, req_id, record_ts, defrag_buf_ts, record_tc,
                   defrag_buf_tc>>

\* the call writes through the state pointer it was given, and nowhere else
SetMqttState(st) ==
    /\ tx_id' = st.tx_id
    /\ protocol_version' = st.protocol_version
    /\ transactions' = st.transactions
    /\ connected' = st.connected
    /\ skip_request' = st.skip_request
    /\ skip_response' = st.skip_response
    /\ UNCHANGED <<peer, proto, events, req_id, record_ts, defrag_buf_ts, record_tc,
                   defrag_buf_tc>>

\* the build profiles that matter to a call: with and without overflow checks
Builds(r) == IF r.outcome = "returned" THEN {TRUE} ELSE BOOLEAN

rs_mqtt_parse_request(Wires, whole, max_tx) ==
    /\ proto = "mqtt" /\ pstate = "active" /\ ~walk.active
    /\ \E c \in Chunks(wire_ts, Wires, whole) :
         LET input == held_ts \o c[1] IN
         \E oc \in BOOLEAN : \E r \in {parse_request(MqttState, input, oc)} :
           /\ oc \in Builds(r)
           /\ r.st.tx_id <= max_tx
           /\ \A i \in 1..Len(r.st.transactions) :
                 Len(r.st.transactions[i].msg) <= MaxMsgs
           /\ wire_ts' = c[2]
           /\ SetMqttState(r.st)
           /\ pstate' = AfterParse(r.outcome, r.res)
           /\ held_ts' = HeldAfter(input, r.outcome, r.res)
           /\ last' = ParseCall("rs_mqtt_parse_request", input, Len(held_ts),
                                skip_request, r.outcome, r.res, r.trunc, r.handled)
    /\ walk' = WalkIdle
    /\ UNCHANGED <<held_tc, wire_tc>>

rs_mqtt_parse_response(Wires, whole, max_tx) ==
    /\ proto = "mqtt" /\ pstate = "active" /\ ~walk.active
    /\ \E c \in Chunks(wire_tc, Wires, whole) :
         LET input == held_tc \o c[1] IN
         \E oc \in BOOLEAN : \E r \in {parse_response(MqttState, input, oc)} :
           /\ oc \in Builds(r)
           /\ r.st.tx_id <= max_tx
           /\ \A i \in 1..Len(r.st.transactions) :
                 Len(r.st.transactions[i].msg) <= MaxMsgs
           /\ wire_tc' = c[2]
           /\ SetMqttState(r.st)
           /\ pstate' = AfterParse(r.outcome, r.res)
           /\ held_tc' = HeldAfter(input, r.outcome, r.res)
           /\ last' = ParseCall("rs_mqtt_parse_response", input, Len(held_tc),
                                skip_response, r.outcome, r.res, r.trunc, r.handled)
    /\ walk' = WalkIdle
    /\ UNCHANGED <<held_ts, wire_ts>>

\* the fields of this flow's state that belong to NTP, DHCP and IKE
CounterState == [tx_id |-> tx_id, transactions |-> transactions, events |-> events]

SetCounterState(st) ==
    /\ tx_id' = st.tx_id
    /\ transactions' = st.transactions
    /\ events' = st.events
    /\ UNCHANGED <<peer, proto, protocol_version, connected, skip_request,
                   skip_response, req_id, record_ts, defrag_buf_ts, record_tc,
                   defrag_buf_tc, held_ts, held_tc, wire_ts, wire_tc>>

\* a datagram parser's call: the state it leaves and the result it returns
DatagramCall(op, input, st, res) ==
    /\ st.tx_id <= MaxTx
    /\ SetCounterState(st)
    /\ pstate' = AfterParse("returned", res)
    /\ last' = ParseCall(op, input, 0, 0, "returned", res, FALSE, 0)
    /\ walk' = WalkIdle

rs_ntp_parse_request ==
    /\ proto = "ntp" /\ pstate = "active" /\ ~walk.active
    /\ \E input \in NtpInputs :
         LET r == NTP_parse(CounterState, input) IN
         DatagramCall("rs_ntp_parse_request", input, r.st,
                      IF r.ret < 0 THEN AppLayerResult_err ELSE AppLayerResult_ok)

rs_ntp_parse_response ==
    /\ proto = "ntp" /\ pstate = "active" /\ ~walk.active
    /\ \E input \in NtpInputs :
         LET r == NTP_parse(CounterState, input) IN
         DatagramCall("rs_ntp_parse_response", input, r.st,
                      IF r.ret < 0 THEN AppLayerResult_err ELSE AppLayerResult_ok)

\* Counters: the values of the transaction counter within the model's bounds
rs_dhcp_parse(Counters) ==
    /\ proto = "dhcp" /\ pstate = "active" /\ ~walk.active
    /\ \E input \in DhcpInputs : \E oc \in BOOLEAN :
       \E r \in {DHCP_parse_build(CounterState, input, oc)} :
       \E res \in {IF r.ret THEN AppLayerResult_ok ELSE AppLayerResult_err} :
         /\ r.st.tx_id \in Counters
         /\ SetCounterState(r.st)
         /\ pstate' = AfterParse(r.outcome, res)
         /\ last' = ParseCall("rs_dhcp_parse", input, 0, 0, r.outcome, res,
                              FALSE, 0)
         /\ walk' = WalkIdle

IkeState == [tx_id |-> tx_id, transactions |-> transactions]

rs_ike_parse_request ==
    /\ proto = "ike" /\ pstate = "active" /\ ~walk.active
    /\ \E input \in IkeInputs :
         LET r == IKE_handle_input(IkeState, input, "STREAM_TOSERVER") IN
         DatagramCall("rs_ike_parse_request", input,
                      [tx_id |-> r.st.tx_id, transactions |-> r.st.transactions,
                       events |-> events], r.res)

rs_ike_parse_response ==
    /\ proto = "ike" /\ pstate = "active" /\ ~walk.active
    /\ \E input \in IkeInputs :
         LET r == IKE_handle_input(IkeState, input, "STREAM_TOCLIENT") IN
         DatagramCall("rs_ike_parse_response", input,
                      [tx_id |-> r.st.tx_id, transactions |-> r.st.transactions,
                       events |-> events], r.res)

Krb5State ==
    [tx_id |-> tx_id, transactions |-> transactions, req_id |-> req_id,
     record_ts |-> record_ts, defrag_buf_ts |-> defrag_buf_ts,
     record_tc |-> record_tc, defrag_buf_tc |-> defrag_buf_tc]

Krb5Call(op, input, st, res, max_buf) ==
    /\ st.tx_id <= MaxTx
    /\ Len(st.defrag_buf_ts) <= max_buf /\ Len(st.defrag_buf_tc) <= max_buf
    /\ tx_id' = st.tx_id
    /\ transactions' = st.transactions
    /\ req_id' = st.req_id
    /\ record_ts' = st.record_ts
    /\ defrag_buf_ts' = st.defrag_buf_ts
    /\ record_tc' = st.record_tc
    /\ defrag_buf_tc' = st.defrag_buf_tc
    /\ pstate' = AfterParse("returned", res)
    /\ last' = ParseCall(op, input, 0, 0, "returned", res, FALSE, 0)
    /\ walk' = WalkIdle
    /\ UNCHANGED <<peer, proto, events, protocol_version, connected, skip_request,
                   skip_response, held_ts, held_tc>>

rs_krb5_parse_request ==
    /\ proto = "krb5_udp" /\ pstate = "active" /\ ~walk.active
    /\ \E input \in Krb5Inputs :
         LET r == KRB5_parse(Krb5State, input) IN
         Krb5Call("rs_krb5_parse_request", input, r.st,
                  IF r.ret < 0 THEN AppLayerResult_err ELSE AppLayerResult_ok,
                  MaxBuf)
    /\ UNCHANGED <<wire_ts, wire_tc>>

rs_krb5_parse_response ==
    /\ proto = "krb5_udp" /\ pstate = "active" /\ ~walk.active
    /\ \E input \in Krb5Inputs :
         LET r == KRB5_parse(Krb5State, input) IN
         Krb5Call("rs_krb5_parse_response", input, r.st,
                  IF r.ret < 0 THEN AppLayerResult_err ELSE AppLayerResult_ok,
                  MaxBuf)
    /\ UNCHANGED <<wire_ts, wire_tc>>

\* Cuts: the chunks the host may deliver next, each with the bytes of the
\* stream it leaves behind
rs_krb5_parse_request_tcp(Cuts, max_buf) ==
    /\ proto = "krb5_tcp" /\ pstate = "active" /\ ~walk.active
    /\ \E c \in Cuts :
       \E r \in {krb5_parse_request_tcp(Krb5State, c[1])} :
         /\ Krb5Call("rs_krb5_parse_request_tcp", c[1], r.st, r.res, max_buf)
         /\ wire_ts' = c[2]
    /\ UNCHANGED wire_tc

rs_krb5_parse_response_tcp(Cuts, max_buf) ==
    /\ proto = "krb5_tcp" /\ pstate = "active" /\ ~walk.active
    /\ \E c \in Cuts :
       \E r \in {krb5_parse_response_tcp(Krb5State, c[1])} :
         /\ Krb5Call("rs_krb5_parse_response_tcp", c[1], r.st, r.res, max_buf)
         /\ wire_tc' = c[2]
    /\ UNCHANGED wire_ts

-----------------------------------------------------------------------------
(* The host's calls on the transaction store *)

\* ids the host passes: those of the transactions a flow can create and one
\* that is never assigned
HostIds == 0..MaxTx

\* a call that leaves everything but the store, the iterator loop and the
\* call record as it is
StoreFrame ==
    UNCHANGED <<peer, proto, tx_id, events, protocol_version, connected, skip_request,
                skip_response, req_id, record_ts, defrag_buf_ts, record_tc,
                defrag_buf_tc, held_ts, held_tc, wire_ts, wire_tc>>

\* tx_free of the parsers whose free_tx takes the Vec as it finds it
TxFree(op, id, txs) ==
    /\ transactions' = txs
    /\ last' = [StoreCall(op, <<id>>, "returned", NoRet)
                  EXCEPT !.released = Released(proto, transactions, txs)]
    /\ walk' = WalkIdle
    /\ UNCHANGED pstate
    /\ StoreFrame

\* tx_free of the parsers whose free_tx asserts that the id is stored
TxFreeAsserted(op, id, r) ==
    /\ transactions' = r.txs
    /\ last' = [StoreCall(op, <<id>>, r.outcome, NoRet)
                  EXCEPT !.released = Released(proto, transactions, r.txs)]
    /\ walk' = WalkIdle
    /\ pstate' = IF r.outcome = "returned" THEN pstate ELSE r.outcome
    /\ StoreFrame

\* the build profiles that matter to a free_tx: with and without debug
\* assertions when the id is not stored
DebugBuilds(txs, id) == IF position(txs, id) = 0 THEN BOOLEAN ELSE {FALSE}

rs_mqtt_state_tx_free ==
    /\ proto = "mqtt" /\ Alive /\ ~walk.active
    /\ \E id \in HostIds :
         TxFree("rs_mqtt_state_tx_free", id, MQTT_free_tx(transactions, id))

rs_dhcp_state_tx_free ==
    /\ proto = "dhcp" /\ Alive /\ ~walk.active
    /\ \E id \in HostIds :
         TxFree("rs_dhcp_state_tx_free", id, DHCP_free_tx(transactions, id))

rs_ntp_state_tx_free ==
    /\ proto = "ntp" /\ Alive /\ ~walk.active
    /\ \E id \in HostIds : \E da \in DebugBuilds(transactions, id) :
         TxFreeAsserted("rs_ntp_state_tx_free", id,
                        NTP_free_tx(transactions, id, da))

rs_ike_state_tx_free ==
    /\ proto = "ike" /\ Alive /\ ~walk.active
    /\ \E id \in HostIds : \E da \in DebugBuilds(transactions, id) :
         TxFreeAsserted("rs_ike_state_tx_free", id,
                        IKE_free_tx(transactions, id, da))

rs_krb5_state_tx_free ==
    /\ proto \in {"krb5_udp", "krb5_tcp"} /\ Alive /\ ~walk.active
    /\ \E id \in HostIds : \E da \in DebugBuilds(transactions, id) :
         TxFreeAsserted("rs_krb5_state_tx_free", id,
                        KRB5_free_tx(transactions, id, da))

\* a call that only reads the store
ReadCall(call) ==
    /\ last' = call
    /\ walk' = WalkIdle
    /\ UNCHANGED <<transactions, pstate>>
    /\ StoreFrame

\* the pointer get_tx hands back: the internal id of its transaction
TxPointer(op, id, tx) ==
    StoreCall(op, <<id>>, "returned",
              IF tx = None THEN NoRet
              ELSE [NoRet EXCEPT !.found = TRUE, !.tx = tx[1].tx_id])

rs_mqtt_state_get_tx ==
    /\ proto = "mqtt" /\ Alive /\ ~walk.active
    /\ \E id \in HostIds :
         ReadCall(TxPointer("rs_mqtt_state_get_tx", id, MQTT_get_tx(transactions, id)))

rs_dhcp_state_get_tx ==
    /\ proto = "dhcp" /\ Alive /\ ~walk.active
    /\ \E id \in HostIds :
         ReadCall(TxPointer("rs_dhcp_state_get_tx", id, DHCP_get_tx(transactions, id)))

rs_ntp_state_get_tx ==
    /\ proto = "ntp" /\ Alive /\ ~walk.active
    /\ \E id \in HostIds :
         ReadCall(TxPointer("rs_ntp_state_get_tx", id,
                            NTP_get_tx_by_id(transactions, id)))

rs_ike_state_get_tx ==
    /\ proto = "ike" /\ Alive /\ ~walk.active
    /\ \E id \in HostIds :
         ReadCall(TxPointer("rs_ike_state_get_tx", id, IKE_get_tx(transactions, id)))

rs_krb5_state_get_tx ==
    /\ proto \in {"krb5_udp", "krb5_tcp"} /\ Alive /\ ~walk.active
    /\ \E id \in HostIds :
         ReadCall(TxPointer("rs_krb5_state_get_tx", id,
                            KRB5_get_tx_by_id(transactions, id)))

\* rs_<proto>_state_get_tx_count: return state.tx_id
TxCount(op) == [StoreCall(op, <<>>, "returned", NoRet) EXCEPT !.count = tx_id]

rs_mqtt_state_get_tx_count ==
    proto = "mqtt" /\ Alive /\ ~walk.active
    /\ ReadCall(TxCount("rs_mqtt_state_get_tx_count"))

rs_dhcp_state_get_tx_count ==
    proto = "dhcp" /\ Alive /\ ~walk.active
    /\ ReadCall(TxCount("rs_dhcp_state_get_tx_count"))

rs_ntp_state_get_tx_count ==
    proto = "ntp" /\ Alive /\ ~walk.active
    /\ ReadCall(TxCount("rs_ntp_state_get_tx_count"))

rs_ike_state_get_tx_count ==
    proto = "ike" /\ Alive /\ ~walk.active
    /\ ReadCall(TxCount("rs_ike_state_get_tx_count"))

rs_krb5_state_get_tx_count ==
    proto \in {"krb5_udp", "krb5_tcp"} /\ Alive /\ ~walk.active
    /\ ReadCall(TxCount("rs_krb5_state_get_tx_count"))

\* cursors the host passes: every position of the Vec and the one past it
HostCursors == 0..MaxTx

rs_mqtt_state_get_tx_iterator ==
    /\ proto = "mqtt" /\ Alive /\ ~walk.active
    /\ \E min_tx_id \in HostIds, istate \in HostCursors :
         ReadCall(StoreCall("rs_mqtt_state_get_tx_iterator", <<min_tx_id, istate>>,
                            "returned",
                            MQTT_tx_iterator(transactions, min_tx_id, istate)))

rs_dhcp_state_get_tx_iterator ==
    /\ proto = "dhcp" /\ Alive /\ ~walk.active
    /\ \E min_tx_id \in HostIds, istate \in HostCursors :
         ReadCall(StoreCall("rs_dhcp_state_get_tx_iterator", <<min_tx_id, istate>>,
                            "returned",
                            DHCP_get_tx_iterator(transactions, min_tx_id, istate)))

rs_ike_state_get_tx_iterator ==
    /\ proto = "ike" /\ Alive /\ ~walk.active
    /\ \E min_tx_id \in HostIds, istate \in HostCursors :
         ReadCall(StoreCall("rs_ike_state_get_tx_iterator", <<min_tx_id, istate>>,
                            "returned",
                            IKE_tx_iterator(transactions, min_tx_id, istate)))

\* the iterator the parser registers with the host (get_tx_iterator)
registered_iterator(txs, min_tx_id, istate) ==
    IF proto = "mqtt" THEN MQTT_tx_iterator(txs, min_tx_id, istate)
    ELSE DHCP_get_tx_iterator(txs, min_tx_id, istate)

\* the host starts an iterator loop at a minimum id and a cursor
iter_loop_start ==
    /\ proto \in {"mqtt", "dhcp"} /\ Alive /\ ~walk.active
    /\ \E min_tx_id \in HostIds, istate \in HostCursors :
         /\ walk' = [active |-> TRUE, min_tx_id |-> min_tx_id, state |-> istate,
                     out |-> <<>>, from |-> <<min_tx_id, istate>>]
         /\ last' = StoreCall("iter_loop_start", <<min_tx_id, istate>>,
                              "returned", NoRet)
    /\ UNCHANGED <<transactions, pstate>>
    /\ StoreFrame

\* one round of the loop: the call, and the next round's min_tx_id (the id
\* it was handed + 1) and cursor; the loop ends when the call finds nothing
iter_loop_step ==
    /\ walk.active
    /\ LET t == registered_iterator(transactions, walk.min_tx_id, walk.state) IN
       /\ walk' = IF t.found
                  THEN [walk EXCEPT !.out = Append(@, t),
                                    !.min_tx_id = t.tx_id + 1,
                                    !.state = t.state]
                  ELSE [walk EXCEPT !.out = Append(@, t), !.active = FALSE]
       /\ last' = StoreCall("iter_loop_step", <<walk.min_tx_id, walk.state>>,
                            "returned", t)
    /\ UNCHANGED <<transactions, pstate>>
    /\ StoreFrame

\* the host frees a transaction between two rounds of its loop over an MQTT
\* store (the cleanup of transactions it is done with); the loop keeps the
\* min_tx_id and the cursor it has
iter_loop_tx_free ==
    /\ proto = "mqtt" /\ Alive /\ walk.active
    /\ \E id \in HostIds :
         \E txs \in {MQTT_free_tx(transactions, id)} :
            /\ transactions' = txs
            /\ last' = [StoreCall("rs_mqtt_state_tx_free", <<id>>, "returned",
                                  NoRet)
                          EXCEPT !.released = Released(proto, transactions, txs)]
    /\ UNCHANGED <<walk, pstate>>
    /\ StoreFrame

-----------------------------------------------------------------------------
(* The detection engine's state on a transaction, and the end of a flow *)

\* the detection-state objects the detection engine owns
DetectStates == {"de_state_1", "de_state_2"}

\* rs_<proto>_tx_set_detect_state on a stored transaction
tx_set_detect_state ==
    /\ Alive /\ ~walk.active
    /\ \E i \in 1..Len(transactions), de_state \in DetectStates :
         /\ transactions' =
               [transactions EXCEPT ![i] = tx_set_de_state(@, de_state)]
         /\ last' = [StoreCall("tx_set_detect_state",
                               <<transactions[i].tx_id, de_state>>, "returned",
                               NoRet) EXCEPT !.status = 0]
    /\ walk' = WalkIdle
    /\ UNCHANGED pstate
    /\ StoreFrame

\* rs_<proto>_tx_get_detect_state on a stored transaction; count carries
\* the pointer returned
tx_get_detect_state ==
    /\ Alive /\ ~walk.active
    /\ \E i \in 1..Len(transactions) :
         ReadCall([StoreCall("tx_get_detect_state", <<transactions[i].tx_id>>,
                             "returned", NoRet)
                     EXCEPT !.count = tx_get_de_state(transactions[i])])

\* rs_<proto>_state_free: the state is dropped, and its transactions with it
state_free ==
    /\ Alive /\ ~walk.active
    /\ transactions' = <<>>
    /\ pstate' = "freed"
    /\ last' = [StoreCall("state_free", <<>>, "returned", NoRet)
                  EXCEPT !.released = Released(proto, transactions, <<>>)]
    /\ walk' = WalkIdle
    /\ StoreFrame

-----------------------------------------------------------------------------
(* The host probes the first bytes of a flow *)

\* a probe call: its buffer, its direction, what rdir pointed to before and
\* after it, and the protocol it returned
ProbeCall(op, input, direction, rdir_in, rdir, alproto) ==
    [op |-> op, input |-> input, direction |-> direction, rdir_in |-> rdir_in,
     rdir |-> rdir, alproto |-> alproto]

\* a probe takes the flow as a const pointer it never reads
FlowUntouched ==
    UNCHANGED <<peer, proto, tx_id, transactions, events, protocol_version, connected,
                skip_request, skip_response, req_id, record_ts, defrag_buf_ts,
                record_tc, defrag_buf_tc, pstate, held_ts, held_tc, wire_ts,
                wire_tc, walk>>

rs_mqtt_probing_parser ==
    /\ proto = "mqtt"
    /\ \E input \in MqttProbeInputs, direction \in Directions, rdir \in RdirValues :
         last' = ProbeCall("rs_mqtt_probing_parser", input, direction, rdir, rdir,
                           mqtt_probing_parser(input))
    /\ FlowUntouched

ntp_probing_parser ==
    /\ proto = "ntp"
    /\ \E input \in NtpInputs, direction \in Directions, rdir \in RdirValues :
         last' = ProbeCall("ntp_probing_parser", input, direction, rdir, rdir,
                           ntp_probing(input))
    /\ FlowUntouched

rs_dhcp_probing_parser ==
    /\ proto = "dhcp"
    /\ \E input \in DhcpProbeInputs, direction \in Directions, rdir \in RdirValues :
         last' = ProbeCall("rs_dhcp_probing_parser", input, direction, rdir, rdir,
                           dhcp_probing_parser(input))
    /\ FlowUntouched

rs_ike_probing_parser ==
    /\ proto = "ike"
    /\ \E input \in IkeProbeInputs, direction \in Directions, rdir \in RdirValues :
       \E r \in {ike_probing_parser(input, direction, rdir)} :
         last' = ProbeCall("rs_ike_probing_parser", input, direction, rdir,
                           r.rdir, r.alproto)
    /\ FlowUntouched

rs_krb5_probing_parser ==
    /\ proto = "krb5_udp"
    /\ \E input \in Krb5ProbeInputs, direction \in Directions, rdir \in RdirValues :
         last' = ProbeCall("rs_krb5_probing_parser", input, direction, rdir, rdir,
                           krb5_probing_parser(input))
    /\ FlowUntouched

rs_krb5_probing_parser_tcp ==
    /\ proto = "krb5_tcp"
    /\ \E input \in Krb5TcpProbeInputs, direction \in Directions, rdir \in RdirValues :
         last' = ProbeCall("rs_krb5_probing_parser_tcp", input, direction, rdir,
                           rdir, krb5_probing_parser_tcp(input))
    /\ FlowUntouched

-----------------------------------------------------------------------------
(* Event tags (applayer.rs, trait AppLayerEvent).  Each parser's event enum  *)
(* derives AppLayerEvent; the derive gives a variant its position in the     *)
(* enum as id and its name in snake case as string.                          *)

\* the parsers a flow can have
Protocols == {"mqtt", "ntp", "dhcp", "ike", "krb5_udp", "krb5_tcp"}

\* the variants of the event enum of a protocol, in the order of the enum
EventTags(p) ==
    CASE p = "dhcp" -> <<"TruncatedOptions", "MalformedOptions">>
      [] p = "mqtt" -> <<"MissingConnect", "MissingPublish", "MissingSubscribe",
                         "MissingUnsubscribe", "DoubleConnect",
                         "UnintroducedMessage", "InvalidQosLevel",
                         "MissingMsgId", "UnassignedMsgType">>
      [] p = "ike" -> <<"MalformedData", "NoEncryption", "WeakCryptoEnc",
                        "WeakCryptoPrf", "WeakCryptoDh", "WeakCryptoAuth",
                        "WeakCryptoNoDh", "WeakCryptoNoAuth", "InvalidProposal",
                        "UnknownProposal", "PayloadExtraData",
                        "MultipleServerProposal">>
      [] p \in {"krb5_udp", "krb5_tcp"} -> <<"MalformedData", "WeakEncryption">>
      [] p = "ntp" -> <<"UnsolicitedResponse", "MalformedData", "NotRequest",
                        "NotResponse">>

\* the strings the derive gives the variants, in the same order
EventNames(p) ==
    CASE p = "dhcp" -> <<"truncated_options", "malformed_options">>
      [] p = "mqtt" -> <<"missing_connect", "missing_publish",
                         "missing_subscribe", "missing_unsubscribe",
                         "double_connect", "unintroduced_message",
                         "invalid_qos_level", "missing_msg_id",
                         "unassigned_msg_type">>
      [] p = "ike" -> <<"malformed_data", "no_encryption", "weak_crypto_enc",
                        "weak_crypto_prf", "weak_crypto_dh", "weak_crypto_auth",
                        "weak_crypto_no_dh", "weak_crypto_no_auth",
                        "invalid_proposal", "unknown_proposal",
                        "payload_extra_data", "multiple_server_proposal">>
      [] p \in {"krb5_udp", "krb5_tcp"} -> <<"malformed_data", "weak_encryption">>
      [] p = "ntp" -> <<"unsolicited_response", "malformed_data", "not_request",
                        "not_response">>

\* the 1-based position of x in the sequence s, 0 when it is not there
IndexOf(s, x) ==
    IF \E i \in 1..Len(s) : s[i] = x
    THEN CHOOSE i \in 1..Len(s) : s[i] = x /\ \A j \in 1..(i - 1) : s[j] # x
    ELSE 0

from_id(p, id) ==
    IF id >= 0 /\ id < Len(EventTags(p)) THEN Some(EventTags(p)[id + 1]) ELSE None

as_i32(p, e) == IndexOf(EventTags(p), e) - 1

to_cstring(p, e) == EventNames(p)[IndexOf(EventTags(p), e)]

from_string(p, name) ==
    IF IndexOf(EventNames(p), name) # 0
    THEN Some(EventTags(p)[IndexOf(EventNames(p), name)]) ELSE None

\* an out parameter the call did not write
Unset == "unset"

\* get_event_info::<T>: the return value and the out parameters
get_event_info(p, event_name) ==
    IF event_name = NullPtr
    THEN [ret |-> -1, event_id |-> Unset, event_name |-> Unset,
          event_type |-> Unset]
    ELSE LET e == from_string(p, event_name)
             event == IF e # None THEN as_i32(p, e[1]) ELSE -1
         IN  [ret |-> 0, event_id |-> event, event_name |-> Unset,
              event_type |-> "APP_LAYER_EVENT_TYPE_TRANSACTION"]

\* get_event_info_by_id::<T>
get_event_info_by_id(p, event_id) ==
    LET e == from_id(p, event_id) IN
    IF e # None
    THEN [ret |-> 0, event_id |-> Unset, event_name |-> to_cstring(p, e[1]),
          event_type |-> "APP_LAYER_EVENT_TYPE_TRANSACTION"]
    ELSE [ret |-> -1, event_id |-> Unset, event_name |-> Unset,
          event_type |-> Unset]

\* the names the rule loader asks for: every name of every protocol, names
\* no protocol has, and no name at all
AllEventNames ==
    UNION {{EventNames(p)[i] : i \in 1..Len(EventNames(p))} : p \in Protocols}
LookupNames ==
    AllEventNames \cup {"", "MalformedData", "no_such_event", NullPtr}

\* the ids the logger asks for
LookupIds == -1..13

\* a lookup leaves the flow as it is
EventInfoCall(op, arg, r) ==
    /\ last' = [StoreCall(op, <<arg>>, "returned", NoRet)
                  EXCEPT !.status = r.ret,
                         !.ret = [event_id |-> r.event_id,
                                  event_name |-> r.event_name,
                                  event_type |-> r.event_type]]
    /\ UNCHANGED <<transactions, pstate, walk>>
    /\ StoreFrame

AppLayerEvent_get_event_info ==
    \E event_name \in LookupNames :
    \E r \in {get_event_info(proto, event_name)} :
       EventInfoCall("get_event_info", event_name, r)

AppLayerEvent_get_event_info_by_id ==
    \E event_id \in LookupIds :
    \E r \in {get_event_info_by_id(proto, event_id)} :
       EventInfoCall("get_event_info_by_id", event_id, r)

-----------------------------------------------------------------------------
(* Two flows of one process.  A worker of the host passes one flow's state   *)
(* pointer per call; the variables of the flow it is not working on are      *)
(* kept in peer.                                                             *)

\* the state behind the pointer of the flow the host works on, with what the
\* host keeps for it
FlowState ==
    [proto |-> proto, tx_id |-> tx_id, transactions |-> transactions,
     events |-> events, protocol_version |-> protocol_version,
     connected |-> connected, skip_request |-> skip_request,
     skip_response |-> skip_response, req_id |-> req_id,
     record_ts |-> record_ts, defrag_buf_ts |-> defrag_buf_ts,
     record_tc |-> record_tc, defrag_buf_tc |-> defrag_buf_tc,
     pstate |-> pstate, held_ts |-> held_ts, held_tc |-> held_tc,
     wire_ts |-> wire_ts, wire_tc |-> wire_tc, walk |-> walk, last |-> last]

\* the host's next call is on the other flow
host_switch_flow ==
    /\ peer # NoFlow
    /\ proto' = peer.proto
    /\ tx_id' = peer.tx_id
    /\ transactions' = peer.transactions
    /\ events' = peer.events
    /\ protocol_version' = peer.protocol_version
    /\ connected' = peer.connected
    /\ skip_request' = peer.skip_request
    /\ skip_response' = peer.skip_response
    /\ req_id' = peer.req_id
    /\ record_ts' = peer.record_ts
    /\ defrag_buf_ts' = peer.defrag_buf_ts
    /\ record_tc' = peer.record_tc
    /\ defrag_buf_tc' = peer.defrag_buf_tc
    /\ pstate' = peer.pstate
    /\ held_ts' = peer.held_ts
    /\ held_tc' = peer.held_tc
    /\ wire_ts' = peer.wire_ts
    /\ wire_tc' = peer.wire_tc
    /\ walk' = peer.walk
    /\ last' = peer.last
    /\ peer' = FlowState

-----------------------------------------------------------------------------
(* Specifications *)

\* the state rs_<proto>_state_new leaves
Init ==
    /\ proto \in Protocols
    /\ tx_id = 0
    /\ transactions = <<>>
    /\ events = 0
    /\ protocol_version = 0
    /\ connected = FALSE
    /\ skip_request = 0
    /\ skip_response = 0
    /\ req_id = 0
    /\ record_ts = 0
    /\ defrag_buf_ts = <<>>
    /\ record_tc = 0
    /\ defrag_buf_tc = <<>>
    /\ pstate = "active"
    /\ held_ts = <<>>
    /\ held_tc = <<>>
    /\ wire_ts = <<>>
    /\ wire_tc = <<>>
    /\ walk = WalkIdle
    /\ last = StoreCall("state_new", <<>>, "returned", NoRet)
    /\ peer = NoFlow

\* the parse entry points and tx_free
TxFreeCalls ==
    \/ rs_mqtt_state_tx_free
    \/ rs_ntp_state_tx_free
    \/ rs_dhcp_state_tx_free
    \/ rs_ike_state_tx_free
    \/ rs_krb5_state_tx_free

DatagramCalls ==
    \/ rs_ntp_parse_request
    \/ rs_ntp_parse_response
    \/ rs_dhcp_parse(0..MaxTx)
    \/ rs_ike_parse_request
    \/ rs_ike_parse_response
    \/ rs_krb5_parse_request
    \/ rs_krb5_parse_response
    \/ rs_krb5_parse_request_tcp(Chunks(wire_ts, RequestRecords, FALSE), MaxBuf)
    \/ rs_krb5_parse_response_tcp(Chunks(wire_tc, ReplyRecords, FALSE), MaxBuf)

\* every parser, the MQTT stream cut into chunks
Next ==
    \/ rs_mqtt_parse_request(StreamWires, FALSE, MaxTx)
    \/ rs_mqtt_parse_response(StreamWires, FALSE, MaxTx)
    \/ DatagramCalls
    \/ TxFreeCalls

Spec == Init /\ [][Next]_vars

\* an MQTT session: whole messages of every type
InitSession == Init /\ proto = "mqtt"

NextSession ==
    \/ rs_mqtt_parse_request(ClientMsgs, TRUE, MaxSessionTx)
    \/ rs_mqtt_parse_response(ServerMsgs, TRUE, MaxSessionTx)

SpecSession == InitSession /\ [][NextSession]_vars

\* a session with a QoS 2 delivery from the broker: the client connects and
\* subscribes with id 1; the broker sends CONNACK, PUBLISH with QoS 2 and
\* id 1, and PUBREL; the client answers PUBREC and PUBCOMP
Qos2ClientMsgs ==
    {<<Hdr(1, 0), 1, 4>>, <<Hdr(8, 1), 1, 1>>, <<Hdr(5, 0), 1, 1>>,
     <<Hdr(7, 0), 1, 1>>}
Qos2ServerMsgs ==
    {<<Hdr(2, 0), 0>>, <<Hdr(3, 2), 1, 1>>, <<Hdr(6, 0), 1, 1>>}

NextQos2 ==
    \/ rs_mqtt_parse_request(Qos2ClientMsgs, TRUE, MaxSessionTx)
    \/ rs_mqtt_parse_response(Qos2ServerMsgs, TRUE, MaxSessionTx)

SpecQos2 == InitSession /\ [][NextQos2]_vars

\* every parser, one whole message of any kind per MQTT call
NextWhole ==
    \/ rs_mqtt_parse_request(WireMsgs, TRUE, MaxTx)
    \/ rs_mqtt_parse_response(WireMsgs, TRUE, MaxTx)
    \/ DatagramCalls

SpecWhole == Init /\ [][NextWhole]_vars

\* an MQTT flow whose calls carry several whole messages each
NextAnomaly ==
    \/ rs_mqtt_parse_request(AnomalyWires, TRUE, MaxAnomalyTx)
    \/ rs_mqtt_parse_response(AnomalyWires, TRUE, MaxAnomalyTx)

SpecAnomaly == InitSession /\ [][NextAnomaly]_vars

\* the probes of every parser, on the first bytes of a flow
NextProbe ==
    \/ rs_mqtt_probing_parser
    \/ ntp_probing_parser
    \/ rs_dhcp_probing_parser
    \/ rs_ike_probing_parser
    \/ rs_krb5_probing_parser
    \/ rs_krb5_probing_parser_tcp

SpecProbe == Init /\ [][NextProbe]_vars

\* the transaction store: the parsers fill it, the host reads it, walks it
\* and frees its transactions
StoreReads ==
    \/ rs_mqtt_state_get_tx
    \/ rs_ntp_state_get_tx
    \/ rs_dhcp_state_get_tx
    \/ rs_ike_state_get_tx
    \/ rs_krb5_state_get_tx
    \/ rs_mqtt_state_get_tx_count
    \/ rs_ntp_state_get_tx_count
    \/ rs_dhcp_state_get_tx_count
    \/ rs_ike_state_get_tx_count
    \/ rs_krb5_state_get_tx_count
    \/ rs_mqtt_state_get_tx_iterator
    \/ rs_dhcp_state_get_tx_iterator
    \/ rs_ike_state_get_tx_iterator

NextStore ==
    \/ rs_mqtt_parse_request(StoreMsgs, TRUE, MaxTx)
    \/ rs_mqtt_parse_response(StoreMsgs, TRUE, MaxTx)
    \/ DatagramCalls
    \/ TxFreeCalls
    \/ StoreReads
    \/ iter_loop_start
    \/ iter_loop_step

SpecStore == Init /\ [][NextStore]_vars

\* an MQTT store of up to MaxSweepTx transactions that the host walks and
\* cleans up in the same loop
MaxSweepTx == 3

NextSweep ==
    \/ rs_mqtt_parse_request(StoreMsgs, TRUE, MaxSweepTx)
    \/ rs_mqtt_parse_response(StoreMsgs, TRUE, MaxSweepTx)
    \/ iter_loop_start
    \/ iter_loop_step
    \/ iter_loop_tx_free

SpecSweep == Init /\ [][NextSweep]_vars

\* the detection engine attaches its state to stored transactions, and the
\* host frees transactions and flows
NextDetect ==
    \/ rs_mqtt_parse_request(StoreMsgs, TRUE, MaxTx)
    \/ rs_mqtt_parse_response(StoreMsgs, TRUE, MaxTx)
    \/ DatagramCalls
    \/ TxFreeCalls
    \/ tx_set_detect_state
    \/ tx_get_detect_state
    \/ state_free

SpecDetect == Init /\ [][NextDetect]_vars

\* a KRB5 flow over TCP
InitRecords == Init /\ proto = "krb5_tcp"

\* record streams cut into chunks at any point
NextRecords ==
    \/ rs_krb5_parse_request_tcp(Chunks(wire_ts, RequestStreams, FALSE),
                                 MaxStreamBuf)
    \/ rs_krb5_parse_response_tcp(Chunks(wire_tc, ReplyStreams, FALSE),
                                  MaxStreamBuf)

SpecRecords == InitRecords /\ [][NextRecords]_vars

\* a record that never completes
NextStall ==
    \/ rs_krb5_parse_request_tcp(Whole(StallChunks), MaxStallBuf)
    \/ rs_krb5_parse_response_tcp(Whole(StallChunks), MaxStallBuf)

SpecStall == InitRecords /\ [][NextStall]_vars

\* a DHCP flow: a new one, and two long-lived ones whose transactions the
\* host has freed, after U16_MAX \div 2 messages that raised both events and,
\* for the second, one more message that raised one
LongFlows ==
    {<<0, 0>>, <<U16_MAX \div 2, U16_MAX - 1>>, <<U16_MAX \div 2 + 1, U16_MAX>>}

DhcpTxIds == UNION {f[1]..(f[1] + MaxTx) : f \in LongFlows}

InitDhcp ==
    /\ proto = "dhcp"
    /\ \E f \in LongFlows :
         /\ tx_id = f[1]
         /\ events = f[2]
         /\ last = IF f[1] = 0
                   THEN StoreCall("state_new", <<>>, "returned", NoRet)
                   ELSE StoreCall("rs_dhcp_state_tx_free", <<f[1] - 1>>,
                                  "returned", NoRet)
    /\ transactions = <<>>
    /\ protocol_version = 0
    /\ connected = FALSE
    /\ skip_request = 0
    /\ skip_response = 0
    /\ req_id = 0
    /\ record_ts = 0
    /\ defrag_buf_ts = <<>>
    /\ record_tc = 0
    /\ defrag_buf_tc = <<>>
    /\ pstate = "active"
    /\ held_ts = <<>>
    /\ held_tc = <<>>
    /\ wire_ts = <<>>
    /\ wire_tc = <<>>
    /\ walk = WalkIdle
    /\ peer = NoFlow

NextDhcp ==
    \/ rs_dhcp_parse(DhcpTxIds)
    \/ rs_dhcp_state_tx_free

SpecDhcp == InitDhcp /\ [][NextDhcp]_vars

\* the lookups of event names and ids
NextEvents ==
    \/ AppLayerEvent_get_event_info
    \/ AppLayerEvent_get_event_info_by_id

SpecEvents == Init /\ [][NextEvents]_vars

\* two flows, an MQTT flow and a KRB5 flow over TCP or two of a kind, whose
\* calls the host interleaves in any order
FlowProtocols == {"mqtt", "krb5_tcp"}

InitFlows ==
    /\ proto \in FlowProtocols
    /\ tx_id = 0
    /\ transactions = <<>>
    /\ events = 0
    /\ protocol_version = 0
    /\ connected = FALSE
    /\ skip_request = 0
    /\ skip_response = 0
    /\ req_id = 0
    /\ record_ts = 0
    /\ defrag_buf_ts = <<>>
    /\ record_tc = 0
    /\ defrag_buf_tc = <<>>
    /\ pstate = "active"
    /\ held_ts = <<>>
    /\ held_tc = <<>>
    /\ wire_ts = <<>>
    /\ wire_tc = <<>>
    /\ walk = WalkIdle
    /\ last = StoreCall("state_new", <<>>, "returned", NoRet)
    /\ peer \in {NewFlow(p) : p \in FlowProtocols}

\* the parse, lookup, iterate and remove calls on the flow the host works on
FlowCalls ==
    \/ rs_mqtt_parse_request(FlowMsgs, TRUE, MaxFlowTx)
    \/ rs_mqtt_parse_response(FlowMsgs, TRUE, MaxFlowTx)
    \/ rs_krb5_parse_request_tcp(Chunks(wire_ts, RequestRecords, TRUE), MaxBuf)
    \/ rs_krb5_parse_response_tcp(Chunks(wire_tc, ReplyRecords, TRUE), MaxBuf)
    \/ rs_mqtt_state_get_tx
    \/ rs_krb5_state_get_tx
    \/ rs_mqtt_state_get_tx_iterator
    \/ rs_mqtt_state_tx_free
    \/ rs_krb5_state_tx_free

NextFlows ==
    \/ FlowCalls
    \/ host_switch_flow

SpecFlows == InitFlows /\ [][NextFlows]_vars


-----------------------------------------------------------------------------
(* Properties: the result contract of the parse calls *)

MqttParseOps == {"rs_mqtt_parse_request", "rs_mqtt_parse_response"}

\* consumed <= input length and consumed + needed > input length
IncompleteContract(call) ==
    /\ call.consumed <= Len(call.input)
    /\ call.consumed + call.needed > Len(call.input)

\* the input holds a whole message longer than the configured maximum and,
\* behind it, the first bytes of a message that is not yet whole
TruncatedThenPartial(input) ==
    \E p \in {parse_message(input, 0, cfg_max_msg_len)} :
      /\ p.kind = "Ok" /\ p.msg.type = "TRUNCATED"
      /\ p.msg.skipped_length < Len(input)
      /\ parse_message(Drop(input, p.msg.skipped_length), 0,
                       cfg_max_msg_len).kind = "Incomplete"

\* C1: every MQTT parse call (parse_request, parse_response) that returns
\* Incomplete reports consumed <= input length and consumed + needed > input
\* length, and a call that decodes a TRUNCATED message before an incomplete
\* one is such a call: it returns Incomplete.
C1_IncompleteContract ==
    last.op \in MqttParseOps =>
      /\ last.outcome = "returned" /\ last.status = 1 => IncompleteContract(last)
      /\ last.preskip = 0 /\ TruncatedThenPartial(last.input) =>
            last.outcome = "returned" /\ last.status = 1

\* a call whose input holds a TRUNCATED message and, behind it, the first
\* byte of the next message has panicked or does not return
C1_Witness ==
    /\ last.op = "rs_mqtt_parse_request" /\ last.preskip = 0
    /\ TruncatedThenPartial(last.input)
    /\ last.outcome \in {"panic", "hang"} /\ last.trunc

\* the input is well formed for the entry point op: one complete message
\* (one complete record for KRB5 over TCP)
WellFormedSingle(op, input) ==
    CASE op \in MqttParseOps -> input \in WellFormedMqtt
      [] op \in {"rs_ntp_parse_request", "rs_ntp_parse_response"} ->
            input \in WellFormedNtp
      [] op = "rs_dhcp_parse" -> input \in WellFormedDhcp
      [] op \in {"rs_ike_parse_request", "rs_ike_parse_response"} ->
            input \in WellFormedIke
      [] op \in {"rs_krb5_parse_request", "rs_krb5_parse_response"} ->
            input \in WellFormedKrb5
      [] op = "rs_krb5_parse_request_tcp" -> input \in RequestRecords
      [] op = "rs_krb5_parse_response_tcp" -> input \in ReplyRecords
      [] OTHER -> FALSE

\* the call op starts at a message boundary of its direction: no bytes held
\* back or buffered, none to skip
AtBoundary(op) ==
    CASE op = "rs_mqtt_parse_request" -> held_ts = <<>> /\ skip_request = 0
      [] op = "rs_mqtt_parse_response" -> held_tc = <<>> /\ skip_response = 0
      [] op = "rs_krb5_parse_request_tcp" ->
            defrag_buf_ts = <<>> /\ record_ts = 0
      [] op = "rs_krb5_parse_response_tcp" ->
            defrag_buf_tc = <<>> /\ record_tc = 0
      [] OTHER -> TRUE

MqttStateNext ==
    [tx_id |-> tx_id', protocol_version |-> protocol_version',
     transactions |-> transactions', connected |-> connected',
     skip_request |-> skip_request', skip_response |-> skip_response',
     max_msg_len |-> cfg_max_msg_len]

\* what two parse calls leave is the same: transactions with their events,
\* session state and how the call ended
SameOutcome(one, two) ==
    /\ one.st = two.st
    /\ one.outcome = two.outcome
    /\ one.res.status = two.res.status

\* the non-empty prefixes of the bytes still under way
Rests(wire) == {Take(wire, k) : k \in 1..Len(wire)}

\* the input is a truncated prefix of a valid message no longer than the
\* configured maximum
TruncatedMqtt(input) ==
    /\ Len(input) > 0
    /\ \E m \in WellFormedMqtt :
         /\ m[2] <= cfg_max_msg_len
         /\ Len(input) < Len(m) /\ input = Take(m, Len(input))

TruncatedDatagram(op, input) ==
    \/ op \in {"rs_ntp_parse_request", "rs_ntp_parse_response"}
       /\ Len(input) > 0
       /\ \E m \in WellFormedNtp : Len(input) < Len(m) /\ input = Take(m, Len(input))
    \/ op \in {"rs_ike_parse_request", "rs_ike_parse_response"}
       /\ Len(input) > 0
       /\ \E m \in WellFormedIke : Len(input) < Len(m) /\ input = Take(m, Len(input))

-----------------------------------------------------------------------------
(* Properties: the transaction store *)

FreeOps ==
    {"rs_mqtt_state_tx_free", "rs_dhcp_state_tx_free", "rs_ntp_state_tx_free",
     "rs_ike_state_tx_free", "rs_krb5_state_tx_free"}
GetTxOps ==
    {"rs_mqtt_state_get_tx", "rs_dhcp_state_get_tx", "rs_ntp_state_get_tx",
     "rs_ike_state_get_tx", "rs_krb5_state_get_tx"}
CountOps ==
    {"rs_mqtt_state_get_tx_count", "rs_dhcp_state_get_tx_count",
     "rs_ntp_state_get_tx_count", "rs_ike_state_get_tx_count",
     "rs_krb5_state_get_tx_count"}
IterOps ==
    {"rs_mqtt_state_get_tx_iterator", "rs_dhcp_state_get_tx_iterator",
     "rs_ike_state_get_tx_iterator", "iter_loop_step"}

\* the stored transactions keep their places and ids, and the transactions
\* created behind them carry the ids from + 1, from + 2, ...
CreatedBehind(before, after, from, to) ==
    /\ Len(after) = Len(before) + (to - from)
    /\ \A i \in 1..Len(before) : after[i].tx_id = before[i].tx_id
    /\ \A k \in 1..(to - from) : after[Len(before) + k].tx_id = from + k

\* C4: within one flow the ids are unique and grow by exactly 1 per
\* creation, starting at internal id 1, and are never reused: each parse call
\* gives the transactions it creates the ids tx_id + 1, tx_id + 2, ... whatever
\* was removed before, no other call moves the counter, the stored ids are
\* distinct, ascending and within 1..tx_id, and get_tx_count reports the
\* counter (the number of transactions ever created), not the stored count.
C4_IdsCountCreations ==
    [][/\ tx_id' >= tx_id
       /\ last'.op \in ParseOps
          => CreatedBehind(transactions, transactions', tx_id, tx_id')
       /\ last'.op \notin ParseOps
          => tx_id' = tx_id /\ TxIds(transactions') \subseteq TxIds(transactions)
       /\ \A i \in 1..Len(transactions') :
             /\ transactions'[i].tx_id \in 1..tx_id'
             /\ \A j \in 1..Len(transactions') :
                   i < j => transactions'[i].tx_id < transactions'[j].tx_id
       /\ last'.op \in CountOps => last'.count = tx_id']_vars

\* a transaction was removed, another was created after that, and the count
\* the host reads is 2 while one transaction, with id 2, is stored
C4_Witness ==
    /\ last.op \in CountOps /\ last.count = 2
    /\ Len(transactions) = 1 /\ transactions[1].tx_id = 2

\* txs without the transaction whose external id is id
Without(txs, id) ==
    LET keep(t) == t.tx_id # id + 1 IN SelectSeq(txs, keep)

\* C5: get(id) returns the transaction with internal id id + 1 exactly while
\* it is stored; a stored id leaves the store only by remove of that id and
\* never comes back, so neither get nor the iterator returns it afterwards;
\* remove(id) removes exactly that transaction and leaves every other stored
\* transaction, the id counter and the session state unchanged.
C5_ReachableUntilRemoved ==
    [][/\ last'.op \in GetTxOps
          => /\ last'.ret.found <=> (last'.arg[1] + 1) \in TxIds(transactions)
             /\ last'.ret.found => last'.ret.tx = last'.arg[1] + 1
       /\ last'.op \in IterOps /\ last'.ret.found
          => last'.ret.tx \in TxIds(transactions)
       /\ TxIds(transactions) \ TxIds(transactions') \subseteq
             (IF last'.op \in FreeOps THEN {last'.arg[1] + 1} ELSE {})
       /\ \A id \in TxIds(transactions') \ TxIds(transactions) : id > tx_id
       /\ last'.op \in FreeOps /\ last'.outcome = "returned"
          => /\ transactions' = Without(transactions, last'.arg[1])
             /\ UNCHANGED <<tx_id, events, protocol_version, connected,
                            skip_request, skip_response, req_id, record_ts,
                            defrag_buf_ts, record_tc, defrag_buf_tc, pstate>>]_vars

\* get finds nothing for an id that was assigned and removed, while another
\* transaction is still stored
C5_Witness ==
    /\ last.op = "rs_mqtt_state_get_tx" /\ ~last.ret.found
    /\ last.arg[1] + 1 <= tx_id /\ Len(transactions) = 1

\* C6: no parse call, whatever the protocol, the input or the result,
\* removes a stored transaction: the stored transactions keep their places
\* and the ids stored after the call include those stored before it; the
\* store shrinks only in a remove(id) call.
C6_ParseNeverRemoves ==
    [][/\ last'.op \in ParseOps
          => /\ TxIds(transactions) \subseteq TxIds(transactions')
             /\ Len(transactions') >= Len(transactions)
             /\ \A i \in 1..Len(transactions) :
                   transactions'[i].tx_id = transactions[i].tx_id
       /\ Len(transactions') < Len(transactions) => last'.op \in FreeOps]_vars

\* a parse call on a store that holds a transaction returned Error and the
\* transaction is still stored
C6_Witness ==
    /\ last.op \in ParseOps /\ last.status = -1
    /\ \E i \in 1..Len(transactions) : transactions[i].tx_id < tx_id

\* the 0-based positions at or after cursor whose transaction has an
\* external id of at least min_id
Eligible(txs, min_id, cursor) ==
    {p \in cursor..(Len(txs) - 1) : txs[p + 1].tx_id - 1 >= min_id}

\* C7: one call iterate(min_id, cursor) returns the first stored transaction
\* at or after position cursor whose external id is >= min_id, reports its
\* external id (internal id - 1), leaves the cursor at its position and
\* reports has_more exactly when a stored transaction lies after it; it
\* returns not-found when there is no such transaction.
C7_IterateOnce ==
    last.op \in IterOps =>
      LET P == Eligible(transactions, last.arg[1], last.arg[2]) IN
      IF P = {} THEN ~last.ret.found
      ELSE LET p == CHOOSE q \in P : \A r \in P : q <= r IN
           /\ last.ret.found
           /\ last.ret.tx = transactions[p + 1].tx_id
           /\ last.ret.tx_id = transactions[p + 1].tx_id - 1
           /\ last.ret.tx_id >= last.arg[1]
           /\ last.ret.state = p
           /\ last.ret.has_next <=> (p + 1 < Len(transactions))

\* a call skipped a transaction below min_id and returned the next one
C7_Witness ==
    /\ last.op = "rs_dhcp_state_get_tx_iterator" /\ last.ret.found
    /\ last.ret.state > last.arg[2] /\ last.arg[1] > 0

\* the external ids of the transactions at the positions P
ExternalIds(txs, P) == {txs[p + 1].tx_id - 1 : p \in P}

\* C8: the loop that carries the cursor forward and sets min_id to the last
\* returned id + 1, with no store mutation in between, makes at most one call
\* per stored transaction and one more; when it ends it has returned every
\* stored transaction at or after the initial cursor with id >= the initial
\* min_id exactly once in ascending id order, with has_more = false on the
\* last one only, and then not-found; a loop restarted at the cursor of any
\* tuple it returned yields the same suffix of transactions.
C8_LoopYieldsEachOnce ==
    /\ Len(walk.out) <= Len(transactions) + 1
    /\ ~walk.active /\ walk.out # <<>> =>
         LET n == Len(walk.out) - 1 IN
         /\ ~walk.out[n + 1].found
         /\ \A k \in 1..n :
              /\ walk.out[k].found
              /\ walk.out[k].has_next <=> k < n
              /\ k < n => walk.out[k].tx_id < walk.out[k + 1].tx_id
              /\ \A min_id \in {walk.from[1], walk.out[k].tx_id} :
                   ExternalIds(transactions,
                               Eligible(transactions, min_id, walk.out[k].state))
                   = {walk.out[j].tx_id : j \in k..n}
         /\ {walk.out[k].tx_id : k \in 1..n}
            = ExternalIds(transactions,
                          Eligible(transactions, walk.from[1], walk.from[2]))

\* a loop over a store of two transactions has returned both and then
\* not-found
C8_Witness ==
    /\ ~walk.active /\ Len(walk.out) = 3 /\ proto = "mqtt"
    /\ walk.out[1].has_next /\ ~walk.out[2].has_next /\ ~walk.out[3].found

-----------------------------------------------------------------------------
(* Properties: the MQTT session *)

\* the message a call of one whole message decodes
Decoded(input) == parse_message(input, 0, cfg_max_msg_len).msg

\* the step is a parse call of one whole message of one of the types, on a
\* session that was established before the call
EstablishedCall(types) ==
    /\ connected
    /\ last'.op \in MqttParseOps /\ last'.handled = 1
    /\ Decoded(last'.input).type \in types

CompletingAcks == {"PUBACK", "PUBCOMP", "SUBACK", "UNSUBACK"}

RequestOf(ack) ==
    CASE ack \in {"PUBACK", "PUBCOMP"} -> "PUBLISH"
      [] ack = "SUBACK" -> "SUBSCRIBE"
      [] ack = "UNSUBACK" -> "UNSUBSCRIBE"

\* the positions of the incomplete transactions that hold the key k
Holders(txs, k) ==
    {i \in 1..Len(txs) : ~txs[i].complete /\ txs[i].pkt_id = Some(as_u32(k))}

\* the message was appended to the transaction at position i, which became
\* complete and lost its key; nothing else changed and none was created
CompletedAt(i, type) ==
    /\ transactions' = [transactions EXCEPT ![i].msg = Append(@, type),
                                            ![i].complete = TRUE,
                                            ![i].pkt_id = None]
    /\ tx_id' = tx_id

\* a request with QoS 1 or 2 and message id k creates one incomplete
\* transaction with key k and leaves the stored ones as they are
RequestOpensExchange ==
    EstablishedCall({"PUBLISH", "SUBSCRIBE", "UNSUBSCRIBE"})
    /\ Decoded(last'.input).qos_level \in 1..2
    => /\ tx_id' = tx_id + 1
       /\ Len(transactions') = Len(transactions) + 1
       /\ SubSeq(transactions', 1, Len(transactions)) = transactions
       /\ LET tx == transactions'[Len(transactions')] IN
          /\ ~tx.complete
          /\ tx.pkt_id = Some(as_u32(Decoded(last'.input).message_id[1]))
          /\ tx.msg = <<Decoded(last'.input).type>>

\* C9: on an established session a PUBLISH (SUBSCRIBE, UNSUBSCRIBE) with
\* QoS 1 or 2 and id k creates one incomplete transaction with key k, and a
\* later PUBACK or PUBCOMP (SUBACK, UNSUBACK) with id k is appended to that
\* transaction, completes it and clears its key, creating no transaction of
\* its own.
C9_AckCompletesItsRequest ==
    [][/\ RequestOpensExchange
       /\ EstablishedCall(CompletingAcks)
          => LET H == Holders(transactions, Decoded(last'.input).message_id[1])
                 R == {i \in H : transactions[i].msg[1]
                                   = RequestOf(Decoded(last'.input).type)}
             IN  R # {} => \E j \in R : CompletedAt(j, Decoded(last'.input).type)]_vars

\* the broker's PUBLISH with id 1 and the client's SUBSCRIBE with id 1 were
\* both open, and the broker's SUBACK with id 1 has completed the PUBLISH
\* transaction and left the SUBSCRIBE transaction open
C9_Witness ==
    /\ last.op = "rs_mqtt_parse_response"
    /\ Decoded(last.input).type = "SUBACK" /\ connected
    /\ \E i, j \in 1..Len(transactions) :
         /\ i < j
         /\ transactions[i].msg = <<"PUBLISH", "SUBACK">>
         /\ transactions[i].toclient /\ transactions[i].complete
         /\ transactions[j].msg = <<"SUBSCRIBE">>
         /\ transactions[j].toserver /\ ~transactions[j].complete
         /\ transactions[j].pkt_id = Some(as_u32(1))

AckShaped ==
    {"CONNACK", "PUBACK", "PUBREC", "PUBREL", "PUBCOMP", "SUBACK", "UNSUBACK"}

MissingEvent(ack) ==
    CASE ack = "CONNACK" -> "MissingConnect"
      [] ack \in {"PUBACK", "PUBREC", "PUBREL", "PUBCOMP"} -> "MissingPublish"
      [] ack = "SUBACK" -> "MissingSubscribe"
      [] ack = "UNSUBACK" -> "MissingUnsubscribe"

\* the step is a parse call of one whole acknowledgement-shaped message for
\* which no incomplete transaction holds the matching key
UnmatchedAck ==
    /\ last'.op \in MqttParseOps /\ last'.handled = 1
    /\ Len(last'.input) >= FixedHeaderLen
    /\ Decoded(last'.input).type \in AckShaped
    /\ IF Decoded(last'.input).type = "CONNACK"
       THEN get_tx_by_pkt_id(transactions, MQTT_CONNECT_PKT_ID) = 0
       ELSE Holders(transactions, Decoded(last'.input).message_id[1]) = {}

\* the call created one transaction that carries the events evs, left the
\* stored ones as they are and returned Ok
CreatedWith(evs) ==
    /\ tx_id' = tx_id + 1
    /\ Len(transactions') = Len(transactions) + 1
    /\ SubSeq(transactions', 1, Len(transactions)) = transactions
    /\ transactions'[Len(transactions')].events = evs
    /\ last'.outcome = "returned" /\ last'.status = 0

PingReq == <<Hdr(12, 0), 0>>

\* with a PINGREQ behind the message in the same buffer, the call handles
\* both messages and returns Ok
ContinuesBehind(input) ==
    \A r \in {parse_request(MqttState, input \o PingReq, TRUE),
              parse_response(MqttState, input \o PingReq, TRUE)} :
      r.outcome = "returned" /\ is_ok(r.res) /\ r.handled = 2

\* C10 (as stated): an acknowledgement-shaped message for which no
\* incomplete transaction holds the matching key creates a new transaction
\* that carries the corresponding Missing* event, modifies no stored
\* transaction and is not fatal.
C10_UnmatchedAckIsMissing ==
    [][UnmatchedAck
       => CreatedWith(<<MissingEvent(Decoded(last'.input).type)>>)]_vars

\* C10 (amended): an acknowledgement-shaped message for which no incomplete
\* transaction holds the matching key creates a new transaction, modifies no
\* stored transaction and is not fatal: the call returns Ok and goes on with
\* the rest of its input.  The new transaction carries the corresponding
\* Missing* event when the message is a CONNACK or the session is
\* established; on a session that is not established, PUBACK, PUBREC,
\* PUBREL, PUBCOMP, SUBACK and UNSUBACK carry UnintroducedMessage instead.
C10_UnmatchedAckIsRecorded ==
    [][UnmatchedAck
       => /\ CreatedWith(IF connected \/ Decoded(last'.input).type = "CONNACK"
                         THEN <<MissingEvent(Decoded(last'.input).type)>>
                         ELSE <<"UnintroducedMessage">>)
          /\ ContinuesBehind(last'.input)]_vars

\* on an established session a PUBACK whose id no transaction holds has
\* created a transaction with MissingPublish, next to an incomplete PUBLISH
\* transaction that holds another id
C10_Witness ==
    /\ last.op \in MqttParseOps /\ Decoded(last.input).type = "PUBACK"
    /\ connected /\ Len(transactions) = 3
    /\ transactions[3].events = <<"MissingPublish">>
    /\ transactions[2].msg = <<"PUBLISH">> /\ ~transactions[2].complete

-----------------------------------------------------------------------------
(* Properties: a consumed correlation key *)

\* the step is a parse call of one whole completing acknowledgement, on an
\* established session, that was appended to the transaction at position i
AckAppendedAt(i) ==
    /\ EstablishedCall(CompletingAcks)
    /\ tx_id' = tx_id /\ Len(transactions') = Len(transactions)
    /\ transactions'[i].msg = Append(transactions[i].msg, Decoded(last'.input).type)

\* the acknowledgements with id k a peer may send next
SecondAcks(k) ==
    {MQTTMessage(t, 0, Some(k), 0, 0) : t \in AckShaped \ {"CONNACK"}}

\* the matched transaction is complete and its key is cleared
KeyIsCleared(i) ==
    /\ transactions'[i].complete
    /\ transactions'[i].pkt_id = None

UntouchedBySecond(i, s2) == s2.transactions[i] = transactions'[i]

HandledAsUnmatched(a, s2) ==
    /\ s2.tx_id = tx_id' + 1
    /\ Len(s2.transactions) = Len(transactions') + 1
    /\ SubSeq(s2.transactions, 1, Len(transactions')) = transactions'
    /\ s2.transactions[Len(s2.transactions)].events = <<MissingEvent(a.type)>>

\* the second acknowledgement went to the first other incomplete
\* transaction that still holds the key, and created none
HandledByOtherHolder(i, a, s2) ==
    LET H == Holders(transactions', a.message_id[1])
        j == CHOOSE j \in H : \A h \in H : j <= h
    IN  /\ j # i
        /\ s2.tx_id = tx_id' /\ Len(s2.transactions) = Len(transactions')
        /\ s2.transactions[j].msg = Append(transactions'[j].msg, a.type)
        /\ \A h \in 1..Len(transactions') :
              h # j => s2.transactions[h] = transactions'[h]

\* C11 (as stated): after an acknowledgement with id k has completed a
\* transaction, a second acknowledgement with the same id k, with no request
\* using k in between, does not touch the completed transaction and is
\* handled as unmatched.
C11_ConsumedKeyIsUnmatched ==
    [][\A i \in 1..Len(transactions) :
         AckAppendedAt(i)
         => /\ KeyIsCleared(i)
            /\ \A a \in SecondAcks(Decoded(last'.input).message_id[1]) :
               \A toclient \in BOOLEAN :
               \A s2 \in {handle_msg(MqttStateNext, a, toclient)} :
                  /\ UntouchedBySecond(i, s2)
                  /\ HandledAsUnmatched(a, s2)]_vars

\* C11 (amended): after an acknowledgement with id k has completed a
\* transaction, that transaction is complete and holds no key, and a second
\* acknowledgement with the same id k, with no request using k in between,
\* does not touch it.  The second acknowledgement is handled as unmatched
\* when no other incomplete transaction holds k; when one does (a request
\* with id k that was opened before the first acknowledgement and is still
\* open), it goes to the first such transaction and creates none.
C11_ConsumedKeyNeverRematches ==
    [][\A i \in 1..Len(transactions) :
         AckAppendedAt(i)
         => /\ KeyIsCleared(i)
            /\ \A a \in SecondAcks(Decoded(last'.input).message_id[1]) :
               \A toclient \in BOOLEAN :
               \A s2 \in {handle_msg(MqttStateNext, a, toclient)} :
                  /\ UntouchedBySecond(i, s2)
                  /\ IF Holders(transactions', a.message_id[1]) = {}
                     THEN HandledAsUnmatched(a, s2)
                     ELSE HandledByOtherHolder(i, a, s2)]_vars

\* a PUBACK with id 1 completed the PUBLISH transaction, and the PUBACK with
\* id 1 that followed it has created a transaction of its own with
\* MissingPublish
C11_Witness ==
    /\ last.op \in MqttParseOps /\ connected
    /\ Decoded(last.input).type = "PUBACK"
    /\ \E i, j \in 1..Len(transactions) :
         /\ i < j
         /\ transactions[i].msg = <<"PUBLISH", "PUBACK">>
         /\ transactions[i].complete /\ transactions[i].pkt_id = None
         /\ transactions[j].msg = <<"PUBACK">>
         /\ transactions[j].events = <<"MissingPublish">>

-----------------------------------------------------------------------------
(* Properties: session establishment *)

\* C12: a CONNECT received while the session is already established creates
\* a new transaction carrying DoubleConnect and does not reset session
\* state: connected stays true, the protocol version keeps the value the
\* session had, and no stored transaction is modified.
C12_DoubleConnectKeepsSession ==
    [][EstablishedCall({"CONNECT"})
       => /\ CreatedWith(<<"DoubleConnect">>)
          /\ connected'
          /\ protocol_version' = protocol_version]_vars

\* a CONNECT with protocol level 5 on an established session has created a
\* DoubleConnect transaction and the session's protocol version is now 5
C12_Witness ==
    /\ last.op \in MqttParseOps /\ connected
    /\ Decoded(last.input).type = "CONNECT"
    /\ Decoded(last.input).protocol_version = 5
    /\ Len(transactions) = 2
    /\ transactions[1].msg = <<"CONNECT", "CONNACK">>
    /\ transactions[2].events = <<"DoubleConnect">>
    /\ protocol_version = 5

\* the positions of the incomplete transactions a CONNECT opened
PendingConnects(txs) ==
    {i \in 1..Len(txs) : ~txs[i].complete /\ txs[i].msg[1] = "CONNECT"}

\* message ids at the ends of the 16-bit range
BoundaryIds == {0, 1, U16_MAX}

\* the step is a parse call that handled one whole message
SingleMessageCall ==
    /\ last'.op \in MqttParseOps /\ last'.handled = 1
    /\ Len(last'.input) >= FixedHeaderLen

\* a CONNACK changes no stored transaction but one a CONNECT opened
ConnackMatchesConnectOnly ==
    Decoded(last'.input).type = "CONNACK"
    => \A i \in 1..Len(transactions) :
          transactions'[i] # transactions[i]
          => /\ transactions[i].msg[1] = "CONNECT"
             /\ transactions[i].pkt_id = Some(MQTT_CONNECT_PKT_ID)

\* no acknowledgement with a message id, whatever the id, changes a pending
\* CONNECT transaction of the state the step leaves
IdAcksSpareConnect ==
    \A i \in PendingConnects(transactions') :
    \A t \in AckShaped \ {"CONNACK"} : \A id \in BoundaryIds :
    \A toclient \in BOOLEAN :
    \A s2 \in {handle_msg(MqttStateNext, MQTTMessage(t, 0, Some(id), 0, 0),
                          toclient)} :
       s2.transactions[i] = transactions'[i]

-----------------------------------------------------------------------------
(* Properties: messages recorded with an event *)

NeedsSession ==
    {"PUBLISH", "SUBSCRIBE", "UNSUBSCRIBE", "PUBACK", "PUBREC", "PUBREL",
     "PUBCOMP", "SUBACK", "UNSUBACK", "AUTH", "DISCONNECT", "PINGREQ",
     "PINGRESP"}

\* the transaction the step created
Created == transactions'[Len(transactions')]

\* C14: a message that requires an established session and arrives before
\* the session is established creates exactly one new transaction that
\* carries UnintroducedMessage and is complete.
C14_UnintroducedIsComplete ==
    [][SingleMessageCall /\ ~connected
       /\ Decoded(last'.input).type \in NeedsSession
       => /\ CreatedWith(<<"UnintroducedMessage">>)
          /\ Created.complete]_vars

\* a PINGREQ on a session that is not established has created the only
\* transaction, with UnintroducedMessage, and the transaction is incomplete
C14_Witness ==
    /\ last.op \in MqttParseOps /\ ~connected
    /\ Decoded(last.input).type = "PINGREQ"
    /\ Len(transactions) = 1
    /\ transactions[1].events = <<"UnintroducedMessage">>
    /\ ~transactions[1].complete

\* the typed event of a message with an invalid enumeration, <<>> when the
\* message has none
TypedEvent(msg) ==
    CASE msg.type = "UNASSIGNED" -> <<"UnassignedMsgType">>
      [] msg.type \in {"PUBLISH", "SUBSCRIBE", "UNSUBSCRIBE"}
         /\ msg.qos_level \notin 0..2 -> <<"InvalidQosLevel">>
      [] OTHER -> <<>>

\* C15: a PUBLISH, SUBSCRIBE or UNSUBSCRIBE with a QoS outside 0..2, or a
\* message of an unassigned type, creates a transaction that carries the
\* typed event (InvalidQosLevel, UnassignedMsgType) and is complete.  The
\* QoS of a message is looked at on an established session only (before
\* that the message is an unintroduced one), so the property is stated for
\* an established session and, for the unassigned type, for any session.
C15_InvalidEnumIsComplete ==
    [][SingleMessageCall /\ TypedEvent(Decoded(last'.input)) # <<>>
       /\ (connected \/ Decoded(last'.input).type = "UNASSIGNED")
       => /\ CreatedWith(TypedEvent(Decoded(last'.input)))
          /\ Created.complete]_vars

\* on an established session a PUBLISH with QoS 3 has created a transaction
\* with InvalidQosLevel, and the transaction is incomplete
C15_Witness ==
    /\ last.op \in MqttParseOps /\ connected
    /\ Decoded(last.input).type = "PUBLISH"
    /\ Decoded(last.input).qos_level = 3
    /\ Len(transactions) = 2
    /\ transactions[2].events = <<"InvalidQosLevel">>
    /\ ~transactions[2].complete

-----------------------------------------------------------------------------
(* Properties: anomalies stay local to their transactions *)

\* the number of whole messages a buffer holds
RECURSIVE CountMessages(_)
CountMessages(input) ==
    IF Len(input) < FixedHeaderLen \/ Len(input) < FixedHeaderLen + input[2]
    THEN 0
    ELSE 1 + CountMessages(Drop(input, FixedHeaderLen + input[2]))

\* the number of messages the transactions hold
RECURSIVE MsgTotal(_)
MsgTotal(txs) ==
    IF txs = <<>> THEN 0 ELSE Len(txs[1].msg) + MsgTotal(Drop(txs, 1))

\* a stored transaction keeps its id, its messages in front of those it has
\* gained, and its events
StoredOnlyGain ==
    /\ Len(transactions') >= Len(transactions)
    /\ \A i \in 1..Len(transactions) :
          /\ transactions'[i].tx_id = transactions[i].tx_id
          /\ Len(transactions'[i].msg) >= Len(transactions[i].msg)
          /\ SubSeq(transactions'[i].msg, 1, Len(transactions[i].msg))
                = transactions[i].msg
          /\ transactions'[i].events = transactions[i].events

\* C16: a buffer of several decodable messages, some of which raise anomaly
\* events, is handled to its end: the call returns Ok and the flow stays
\* parseable, every message of the buffer went to handle_msg and is held by
\* exactly one transaction (a new one or the matched one), and the stored
\* transactions lost nothing.
C16_AnomaliesStayLocal ==
    [][last'.op \in MqttParseOps
       => /\ last'.outcome = "returned" /\ last'.status = 0
          /\ pstate' = "active"
          /\ last'.handled = CountMessages(last'.input)
          /\ last'.handled > 1
          /\ MsgTotal(transactions') = MsgTotal(transactions) + last'.handled
          /\ Len(transactions') - Len(transactions) = tx_id' - tx_id
          /\ StoredOnlyGain]_vars

\* on an established session one call has handled a CONNECT, a PUBLISH with
\* QoS 3 and a message of an unassigned type, returned Ok and left three
\* transactions with DoubleConnect, InvalidQosLevel and UnassignedMsgType
C16_Witness ==
    /\ last.op \in MqttParseOps /\ last.handled = 3 /\ last.status = 0
    /\ connected /\ pstate = "active"
    /\ Len(transactions) >= 4
    /\ LET n == Len(transactions) IN
       /\ transactions[n - 2].events = <<"DoubleConnect">>
       /\ transactions[n - 1].events = <<"InvalidQosLevel">>
       /\ transactions[n].events = <<"UnassignedMsgType">>

-----------------------------------------------------------------------------
(* Properties: NTP transactions *)

NtpParseOps == {"rs_ntp_parse_request", "rs_ntp_parse_response"}

\* C20: a well-formed NTP datagram whose mode is client or symmetric-active
\* produces exactly one new transaction whose xid is the datagram's
\* reference id, and the call returns Ok; a well-formed datagram of any
\* other mode produces no transaction, leaves the store and the id counter
\* as they are, and the call still returns Ok.
C20_NtpModeDecidesTransaction ==
    [][last'.op \in NtpParseOps /\ last'.input \in WellFormedNtp
       => LET msg == parse_ntp(last'.input) IN
          /\ last'.status = 0
          /\ IF msg.mode \in {NtpMode_Client, NtpMode_SymmetricActive}
             THEN /\ tx_id' = tx_id + 1
                  /\ Len(transactions') = Len(transactions) + 1
                  /\ SubSeq(transactions', 1, Len(transactions)) = transactions
                  /\ transactions'[Len(transactions')].tx_id = tx_id'
                  /\ transactions'[Len(transactions')].xid = msg.ref_id
             ELSE /\ tx_id' = tx_id
                  /\ transactions' = transactions
                  /\ events' = events]_vars

\* after a version 4 client datagram with reference id 5 has produced the
\* only transaction, a server-mode datagram has returned Ok and produced
\* none
C20_Witness ==
    /\ last.op \in NtpParseOps /\ last.input = <<4 * 8 + 4, 9>>
    /\ last.status = 0
    /\ tx_id = 1 /\ Len(transactions) = 1
    /\ transactions[1].xid = 5

-----------------------------------------------------------------------------
(* The probes: truncated and invalid headers *)

ProbeOps ==
    {"rs_mqtt_probing_parser", "ntp_probing_parser", "rs_dhcp_probing_parser",
     "rs_ike_probing_parser", "rs_krb5_probing_parser",
     "rs_krb5_probing_parser_tcp"}

\* the bytes a probe needs before it can validate the header
ProbeNeed(op) ==
    CASE op = "rs_mqtt_probing_parser" -> FixedHeaderLen
      [] op = "ntp_probing_parser" -> NtpPacketLen
      [] op = "rs_dhcp_probing_parser" -> DhcpHeaderLen
      [] op = "rs_ike_probing_parser" -> IkeHeaderLen
      [] op = "rs_krb5_probing_parser" -> KRB5_PROBE_MAX_SHORT + 1
      [] OTHER -> KRB5_PROBE_MAX_SHORT_TCP + 1

\* the headers of each protocol that are well formed
PlausibleHeaders(op) ==
    CASE op = "rs_mqtt_probing_parser" -> MqttProbeValid
      [] op = "ntp_probing_parser" -> WellFormedNtp
      [] op = "rs_dhcp_probing_parser" -> WellFormedDhcp
      [] op = "rs_ike_probing_parser" -> IkeProbeValid
      [] op = "rs_krb5_probing_parser" -> Krb5ProbeValid
      [] OTHER -> Krb5TcpProbeValid

\* the buffer is the beginning of a well-formed header, and too short to
\* validate it
TruncatedPlausible(op, input) ==
    /\ input # <<>>
    /\ Len(input) < ProbeNeed(op)
    /\ \E m \in PlausibleHeaders(op) :
         Len(input) < Len(m) /\ input = Take(m, Len(input))

\* C17: every probe answers ALPROTO_UNKNOWN, never ALPROTO_FAILED, for a
\* truncated prefix of a plausible header, and answers ALPROTO_UNKNOWN only
\* when it has fewer bytes than it needs to validate the header
C17_TruncatedIsUndecided ==
    [][last'.op \in ProbeOps =>
         /\ TruncatedPlausible(last'.op, last'.input)
                => last'.alproto = "ALPROTO_UNKNOWN"
         /\ last'.alproto = "ALPROTO_UNKNOWN"
                => Len(last'.input) < ProbeNeed(last'.op)]_vars

\* the first 14 bytes of a well-formed Kerberos record on a TCP stream are
\* rejected
C17_Witness ==
    /\ last.op = "rs_krb5_probing_parser_tcp"
    /\ TruncatedPlausible(last.op, last.input)
    /\ Len(last.input) = KRB5_PROBE_MAX_SHORT_TCP
    /\ last.alproto = "ALPROTO_FAILED"

\* the header of a buffer long enough to validate is structurally invalid:
\* wrong framing class or tag, version outside the supported range, declared
\* length inconsistent with the input
InvalidKrb5(m) ==
    \/ der_read_element_header(m).kind # "Ok"
    \/ der_read_element_header(m).class # BerClass_Application
    \/ der_read_element_header(m).tag > KRB5_MAX_TAG
    \/ m[3] # DER_SEQUENCE
    \/ <<m[7], m[8], m[9]>> # <<2, 1, 5>>

StructurallyInvalid(op, input) ==
    CASE op = "rs_mqtt_probing_parser" ->
            \/ MQTTTypeCode(input[1]) = "UNASSIGNED"
            \/ (input[1] \div 2) % 4 > 2
      [] op = "ntp_probing_parser" -> (input[1] \div 8) % 8 \notin {3, 4}
      \* a DHCP header has no class, tag, version or length field
      [] op = "rs_dhcp_probing_parser" -> FALSE
      [] op = "rs_ike_probing_parser" ->
            LET h == parse_isakmp_header(input) IN
            \/ h.maj_ver \notin {1, 2}
            \/ h.maj_ver = 2 /\ (h.min_ver # 0 \/ h.exch_type \notin 34..37)
            \/ h.length # Len(input)
      [] op = "rs_krb5_probing_parser" -> InvalidKrb5(input)
      [] OTHER ->
            \/ be_u32(input).value > KRB5_MAX_RECORD
            \/ InvalidKrb5(be_u32(input).rem)

\* C18: every probe answers ALPROTO_FAILED for a buffer that is long enough
\* to validate and whose header is structurally invalid
C18_InvalidIsRejected ==
    [][(/\ last'.op \in ProbeOps
        /\ Len(last'.input) >= ProbeNeed(last'.op)
        /\ StructurallyInvalid(last'.op, last'.input))
          => last'.alproto = "ALPROTO_FAILED"]_vars

\* an IKEv1 header whose length field is not the datagram's length is
\* confirmed
C18_Witness ==
    /\ last.op = "rs_ike_probing_parser"
    /\ Len(last.input) >= IkeHeaderLen
    /\ parse_isakmp_header(last.input).maj_ver = 1
    /\ parse_isakmp_header(last.input).length # Len(last.input)
    /\ last.alproto = "ALPROTO_IKE"

-----------------------------------------------------------------------------
(* The IKE probe and the direction it signals *)

\* the probe confirms a message with a zero responder SPI that was not seen
\* in the to-server direction
SwapRequested(call) ==
    /\ call.alproto = "ALPROTO_IKE"
    /\ parse_isakmp_header(call.input).resp_spi = ZeroSpi
    /\ call.direction # "STREAM_TOSERVER"

\* C19: the IKE probe writes STREAM_TOSERVER to rdir exactly when it confirms
\* a message whose responder SPI is zero in a direction other than to-server;
\* in every other case rdir keeps its value; the probe never changes the flow
C19_IkeProbeSignalsToServer ==
    [][last'.op = "rs_ike_probing_parser" =>
         /\ SwapRequested(last') => last'.rdir = "STREAM_TOSERVER"
         /\ ~SwapRequested(last') => last'.rdir = last'.rdir_in
         /\ UNCHANGED <<proto, tx_id, transactions, events, protocol_version,
                        connected, skip_request, skip_response, req_id,
                        record_ts, defrag_buf_ts, record_tc, defrag_buf_tc,
                        pstate, held_ts, held_tc, wire_ts, wire_tc, walk>>]_vars

\* an IKEv2 initiator message seen to-client: the probe confirms it and
\* signals the to-server direction
C19_Witness ==
    /\ last.op = "rs_ike_probing_parser"
    /\ last.alproto = "ALPROTO_IKE"
    /\ parse_isakmp_header(last.input).maj_ver = 2
    /\ parse_isakmp_header(last.input).resp_spi = ZeroSpi
    /\ last.direction = "STREAM_TOCLIENT"
    /\ last.rdir_in = "none" /\ last.rdir = "STREAM_TOSERVER"

-----------------------------------------------------------------------------
(* The detection state attached to a transaction *)

\* the stored transaction with this internal id
StoredTx(txs, id) == txs[CHOOSE i \in 1..Len(txs) : txs[i].tx_id = id]

\* C21: no call of this layer releases a detection-state object: removing a
\* transaction and freeing the flow's state release nothing, for every
\* protocol; set stores the handle on its transaction and changes nothing
\* else, and get returns the handle that was set, or null when none was
C21_DetectStateNeverFreed ==
    [][/\ last'.op \in FreeOps \cup {"state_free"} => last'.released = {}
       /\ last'.op = "tx_set_detect_state"
            => /\ Len(transactions') = Len(transactions)
               /\ \A i \in 1..Len(transactions) :
                    transactions'[i] =
                      IF transactions[i].tx_id = last'.arg[1]
                      THEN [transactions[i] EXCEPT !.de_state = <<last'.arg[2]>>]
                      ELSE transactions[i]
       /\ last'.op = "tx_get_detect_state"
            => /\ transactions' = transactions
               /\ last'.count =
                    IF StoredTx(transactions, last'.arg[1]).de_state = <<>>
                    THEN NullPtr
                    ELSE StoredTx(transactions, last'.arg[1]).de_state[1]]_vars

\* removing an MQTT transaction that holds a detection state released it
C21_Witness ==
    /\ last.op = "rs_mqtt_state_tx_free"
    /\ last.released = {"de_state_1"}
    /\ last.arg[1] + 1 \notin TxIds(transactions)

-----------------------------------------------------------------------------
(* KRB5 over TCP: the record reassembly *)

TcpOps == {"rs_krb5_parse_request_tcp", "rs_krb5_parse_response_tcp"}

\* the defragmentation buffer and the record length counter of the direction
\* a call is for, before and after the call
BufferedBefore(op) ==
    IF op = "rs_krb5_parse_request_tcp" THEN defrag_buf_ts ELSE defrag_buf_tc
BufferedAfter(op) ==
    IF op = "rs_krb5_parse_request_tcp" THEN defrag_buf_ts' ELSE defrag_buf_tc'
RecordBefore(op) ==
    IF op = "rs_krb5_parse_request_tcp" THEN record_ts ELSE record_tc
RecordAfter(op) ==
    IF op = "rs_krb5_parse_request_tcp" THEN record_ts' ELSE record_tc'

TcpParse(op, st, buf) ==
    IF op = "rs_krb5_parse_request_tcp" THEN krb5_parse_request_tcp(st, buf)
    ELSE krb5_parse_response_tcp(st, buf)

\* what a flow has decoded: its transactions with their events, and the
\* request the next reply answers
Decoded5(st) == <<st.tx_id, st.transactions, st.req_id>>
DecodedAfter == <<tx_id', transactions', req_id'>>

\* C22: each direction's defragmentation buffer holds at most 100000 bytes
\* after every call, and a call whose input would take the buffered bytes
\* over the cap returns Error and buffers nothing
C22_BufferIsCapped ==
    [][last'.op \in TcpOps =>
         /\ Len(defrag_buf_ts') <= KRB5_DEFRAG_CAP
         /\ Len(defrag_buf_tc') <= KRB5_DEFRAG_CAP
         /\ Len(BufferedBefore(last'.op)) + Len(last'.input) > KRB5_DEFRAG_CAP
              => /\ last'.status = -1
                 /\ BufferedAfter(last'.op) = BufferedBefore(last'.op)]_vars

\* a first chunk of 100005 bytes of a longer record is buffered whole
C22_Witness ==
    /\ last.op = "rs_krb5_parse_request_tcp"
    /\ last.status = 0
    /\ Len(last.input) > KRB5_DEFRAG_CAP
    /\ Len(defrag_buf_ts) > KRB5_DEFRAG_CAP
    /\ record_ts > Len(defrag_buf_ts)

\* C23: a chunk delivered in two parts, cut at any point, decodes to the same
\* transactions, events and request as the chunk delivered whole
C23_ChunkingIsTransparent ==
    [][last'.op \in TcpOps /\ last'.status = 0 =>
         \A k \in 1..(Len(last'.input) - 1) :
           \A a \in {TcpParse(last'.op, Krb5State, Take(last'.input, k))} :
           \A b \in {TcpParse(last'.op, a.st, Drop(last'.input, k))} :
             /\ a.res.status = 0 /\ b.res.status = 0
             /\ Decoded5(b.st) = DecodedAfter]_vars

\* a request record delivered as <<0, 0>> and then <<0, 2, 106, 0>> is not
\* decoded: its first two bytes stay in the buffer and the rest is read as a
\* record length
C23_Witness ==
    /\ last.op = "rs_krb5_parse_request_tcp"
    /\ last.input = <<0, 2, 96 + 10, 0>>
    /\ wire_ts = <<>>
    /\ defrag_buf_ts = <<0, 0>>
    /\ req_id = 0 /\ record_ts # 0

IsSuffix(s, t) == Len(s) <= Len(t) /\ s = Drop(t, Len(t) - Len(s))

\* C24: the bytes a direction holds back after a call are the last of the
\* bytes it held before followed by the bytes delivered, in their order, and
\* a record that was decoded is not held back again
C24_BytesOnceInOrder ==
    [][last'.op \in TcpOps /\ last'.status = 0 =>
         /\ IsSuffix(BufferedAfter(last'.op),
                     BufferedBefore(last'.op) \o last'.input)
         /\ (/\ RecordBefore(last'.op) = 0
             /\ BufferedBefore(last'.op) = <<>>
             /\ last'.input \in WellFormedRecords)
              => BufferedAfter(last'.op) = <<>>]_vars

\* a request record delivered whole was decoded, and its message is in the
\* buffer again
C24_Witness ==
    /\ last.op = "rs_krb5_parse_request_tcp"
    /\ last.input = Record(KrbMsg(10, <<>>))
    /\ req_id = 10
    /\ record_ts = 0
    /\ defrag_buf_ts = KrbMsg(10, <<>>)

\* the records of a stream, each sliced by its length prefix and decoded,
\* the next prefix read right after the slice
RECURSIVE SlicedDecode(_, _)
SlicedDecode(st, bytes) ==
    IF be_u32(bytes).kind # "Ok" \/ Len(be_u32(bytes).rem) < be_u32(bytes).value
    THEN st
    ELSE SlicedDecode(KRB5_parse(st, Take(be_u32(bytes).rem, be_u32(bytes).value)).st,
                      Drop(be_u32(bytes).rem, be_u32(bytes).value))

\* C29: a chunk of whole records, delivered when nothing is outstanding, is
\* decoded record by record: each L-byte slice is one record and the next
\* length prefix is read right behind it, so that no byte is left over
C29_RecordsBackToBack ==
    [][(/\ last'.op \in TcpOps
        /\ RecordBefore(last'.op) = 0 /\ BufferedBefore(last'.op) = <<>>
        /\ last'.input \in RequestStreams \cup ReplyStreams)
          => /\ last'.status = 0
             /\ DecodedAfter = Decoded5(SlicedDecode(Krb5State, last'.input))
             /\ RecordAfter(last'.op) = 0
             /\ BufferedAfter(last'.op) = <<>>]_vars

\* two requests in one chunk: the first is decoded, the second is not
C29_Witness ==
    /\ last.op = "rs_krb5_parse_request_tcp"
    /\ last.input = Record(KrbMsg(10, <<>>)) \o Record(KrbMsg(12, <<>>))
    /\ last.status = 0
    /\ req_id = 10
    /\ record_ts # 0
    /\ defrag_buf_ts = <<0, 2, 96 + 12, 0>>

\* a call that leaves a record length outstanding has appended the bytes
\* it could not decode to the buffer of its direction
AppendedPartial(op, input) ==
    IF RecordBefore(op) = 0
    THEN \E j \in 0..Len(input) :
           BufferedAfter(op) = BufferedBefore(op) \o Drop(input, j)
    ELSE IsSuffix(BufferedAfter(op), BufferedBefore(op) \o input)

\* the direction's record counter and buffer cleared from a KRB5State
Cleared(op, st) ==
    IF op = "rs_krb5_parse_request_tcp"
    THEN [st EXCEPT !.record_ts = 0, !.defrag_buf_ts = <<>>]
    ELSE [st EXCEPT !.record_tc = 0, !.defrag_buf_tc = <<>>]

Krb5StateAfter ==
    [tx_id |-> tx_id', transactions |-> transactions', req_id |-> req_id',
     record_ts |-> record_ts', defrag_buf_ts |-> defrag_buf_ts',
     record_tc |-> record_tc', defrag_buf_tc |-> defrag_buf_tc']

\* a call that finds a record length outstanding reads no length prefix:
\* it appends while the buffered and the new bytes are fewer than the
\* counter; once they are not it decodes them from their first byte and,
\* the counter cleared, goes on over the same bytes as a call does that
\* finds no record outstanding
ResumesRecord(op, input) ==
    LET v == BufferedBefore(op) \o input IN
    IF Len(v) < RecordBefore(op)
    THEN /\ RecordAfter(op) = RecordBefore(op)
         /\ BufferedAfter(op) = v
         /\ DecodedAfter = Decoded5(Krb5State)
    ELSE \A p \in {KRB5_parse(Krb5State, v)} :
           /\ p.ret >= 0
           /\ Krb5StateAfter = TcpParse(op, Cleared(op, p.st), v).st

\* C30 as stated: a call that leaves a record length outstanding has appended
\* the available bytes to the buffer and returns Incomplete; the counter is
\* preserved, and the next call reads no new length prefix and decodes once
\* the counter's number of bytes is there
C30_PartialRecordReturnsIncomplete ==
    [][last'.op \in TcpOps /\ last'.status # -1 =>
         /\ RecordAfter(last'.op) # 0
              => /\ last'.status = 1
                 /\ AppendedPartial(last'.op, last'.input)
         /\ RecordBefore(last'.op) # 0
              => ResumesRecord(last'.op, last'.input)]_vars

\* C30: a call that leaves a record length outstanding has appended the
\* available bytes to the buffer and returns Ok, never Incomplete; the
\* counter is preserved, and the next call reads no new length prefix: it
\* appends until the buffered and the new bytes reach the counter, and then
\* decodes them from their first byte before it goes on over the same bytes
\* with the counter cleared
C30_PartialRecordIsBuffered ==
    [][last'.op \in TcpOps /\ last'.status # -1 =>
         /\ RecordAfter(last'.op) # 0
              => /\ last'.status = 0
                 /\ AppendedPartial(last'.op, last'.input)
         /\ RecordBefore(last'.op) # 0
              => ResumesRecord(last'.op, last'.input)]_vars

\* the last two bytes of an AS-REP record arrive after its first five: the
\* reply is decoded from the buffered byte and the new ones
C30_Witness ==
    /\ last.op = "rs_krb5_parse_response_tcp"
    /\ last.input = <<1, 18>>
    /\ last.status = 0
    /\ Len(transactions) = 1
    /\ wire_tc = <<>>
-----------------------------------------------------------------------------
(* Anomalies of the datagram parsers *)

\* the protocols whose event enum has a MalformedData tag, with their parse
\* entry points
MalformedDataOps ==
    {"rs_ntp_parse_request", "rs_ntp_parse_response", "rs_krb5_parse_request",
     "rs_krb5_parse_response", "rs_ike_parse_request", "rs_ike_parse_response"}

\* the decoder of the message's required leading structure does not return Ok
HeaderFails(op, input) ==
    CASE op \in {"rs_ntp_parse_request", "rs_ntp_parse_response"} ->
           parse_ntp(input).kind # "Ok"
      [] op \in {"rs_krb5_parse_request", "rs_krb5_parse_response"} ->
           der_read_element_header(input).kind # "Ok"
      [] op \in {"rs_ike_parse_request", "rs_ike_parse_response"} ->
           Len(input) > 0 /\ parse_isakmp_header(input).kind # "Ok"
      [] OTHER -> FALSE

\* the transactions with MalformedData set on the most recent one
WithMalformedData(txs) ==
    [txs EXCEPT ![Len(txs)].events = Append(@, "MalformedData")]

\* C25: a parse call of NTP, KRB5 or IKE whose required header fails to
\* decode returns Error, and when the flow holds a transaction the call sets
\* MalformedData on the most recent one.
C25_MalformedDataIsRecorded ==
    [][\A op \in MalformedDataOps :
         (last'.op = op /\ HeaderFails(op, last'.input))
         => /\ last'.status = AppLayerResult_err.status
            /\ transactions # <<>>
               => transactions' = WithMalformedData(transactions)]_vars

\* an IKE datagram with a truncated header was refused on a flow that holds
\* a transaction, and the transaction carries no MalformedData
C25_Witness ==
    /\ last.op = "rs_ike_parse_request"
    /\ HeaderFails(last.op, last.input)
    /\ last.status = AppLayerResult_err.status
    /\ transactions # <<>>
    /\ \A i \in 1..Len(transactions[Len(transactions)].events) :
         transactions[Len(transactions)].events[i] # "MalformedData"

\* the transaction parse pushes for a message that decodes
DhcpPushed(id, message) ==
    [DHCPTransaction_new(id, message) EXCEPT !.events = DHCP_raised(message)]

\* C28: a DHCP message that decodes becomes exactly one new transaction that
\* carries every event the message raised, both of them when it is flagged
\* malformed and truncated, and the state's event counter grows by the
\* number of events raised; a message that does not decode leaves the flow
\* as it is and the call returns Error.
C28_OneTransactionPerMessage ==
    [][last'.op = "rs_dhcp_parse"
       => \A message \in {dhcp_parse(last'.input)} :
            IF message.kind = "Ok"
            THEN /\ last'.outcome = "returned"
                 /\ last'.status = AppLayerResult_ok.status
                 /\ tx_id' = tx_id + 1
                 /\ transactions' =
                       Append(transactions, DhcpPushed(tx_id + 1, message))
                 /\ events' = events + Len(DHCP_raised(message))
            ELSE /\ last'.status = AppLayerResult_err.status
                 /\ UNCHANGED <<tx_id, transactions, events>>]_vars

\* a message flagged malformed and truncated was parsed and returned, its
\* transaction carries both events, and the event counter is below two
C28_Witness ==
    /\ last.op = "rs_dhcp_parse"
    /\ last.outcome = "returned"
    /\ DHCP_raised(dhcp_parse(last.input)) = <<"MalformedOptions", "TruncatedOptions">>
    /\ transactions # <<>>
    /\ transactions[Len(transactions)].events = DHCP_raised(dhcp_parse(last.input))
    /\ events < 2

-----------------------------------------------------------------------------
(* Event names and ids *)

NamesOf(p) == {EventNames(p)[i] : i \in 1..Len(EventNames(p))}
IdsOf(p) == 0..(Len(EventTags(p)) - 1)

\* every tag of a protocol has one id and one name of its own
TagsAreDistinct(p) ==
    /\ Len(EventNames(p)) = Len(EventTags(p))
    /\ \A i, j \in 1..Len(EventTags(p)) :
          i # j => /\ EventTags(p)[i] # EventTags(p)[j]
                   /\ EventNames(p)[i] # EventNames(p)[j]
                   /\ as_i32(p, EventTags(p)[i]) # as_i32(p, EventTags(p)[j])

\* C26: within each protocol's tag set the lookups by name and by id are
\* total and inverse to each other: a tag's name is found with the tag's id,
\* and looking that id up gives the name back; an id of a tag is found with
\* the tag's name, and looking that name up gives the id back; distinct tags
\* have distinct ids and names; a name or an id outside the tag set is
\* reported as not found (-1).
C26_EventLookupIsBijective ==
    /\ \A p \in Protocols : TagsAreDistinct(p)
    /\ last.op = "get_event_info"
       => IF last.arg[1] \in NamesOf(proto)
          THEN /\ last.status = 0
               /\ last.ret.event_id \in IdsOf(proto)
               /\ get_event_info_by_id(proto, last.ret.event_id).event_name
                     = last.arg[1]
          ELSE last.status = -1
    /\ last.op = "get_event_info_by_id"
       => IF last.arg[1] \in IdsOf(proto)
          THEN /\ last.status = 0
               /\ last.ret.event_name \in NamesOf(proto)
               /\ get_event_info(proto, last.ret.event_name).event_id
                     = last.arg[1]
          ELSE last.status = -1

\* a name no tag of the protocol has was looked up, and the call returned 0
\* with -1 as the event's id
C26_Witness ==
    /\ last.op = "get_event_info"
    /\ last.arg[1] # NullPtr
    /\ last.arg[1] \notin NamesOf(proto)
    /\ last.status = 0
    /\ last.ret.event_id = -1

-----------------------------------------------------------------------------
(* Two flows *)

-----------------------------------------------------------------------------
(* KRB5: what a complete record that does not decode leaves *)

Krb5DatagramOps == {"rs_krb5_parse_request", "rs_krb5_parse_response"}

\* the tags parse has an arm for, and those of them whose arm decodes a body
RecognizedTags == {10, 11, 12, 13, 14, 15, 30}
BodyTags == {11, 13, 30}

\* a record with a header that parses, an Application class and a tag whose
\* body does not decode
BodyFails(i) ==
    LET hdr == der_read_element_header(i) IN
    /\ hdr.kind = "Ok"
    /\ hdr.class = BerClass_Application
    /\ hdr.tag \in BodyTags
    /\ krb5_parser_parse(i).kind # "Ok"

\* a record parse has no arm for
Ignored(i) ==
    LET hdr == der_read_element_header(i) IN
    /\ hdr.kind = "Ok"
    /\ hdr.class # BerClass_Application \/ hdr.tag \notin RecognizedTags

\* C31: a KRB5 record whose header does not parse sets MalformedData and the
\* call returns Error; a record of another class or of a tag parse has no arm
\* for creates no transaction and the call returns Ok; a record of a
\* recognized tag whose body does not decode sets MalformedData and the call
\* returns Ok.
C31_Krb5DecodeFailures ==
    [][last'.op \in Krb5DatagramOps =>
         /\ der_read_element_header(last'.input).kind # "Ok"
              => /\ last'.status = AppLayerResult_err.status
                 /\ transactions # <<>>
                    => transactions' = WithMalformedData(transactions)
         /\ Ignored(last'.input)
              => /\ last'.status = AppLayerResult_ok.status
                 /\ UNCHANGED <<tx_id, transactions>>
         /\ BodyFails(last'.input)
              => /\ last'.status = AppLayerResult_ok.status
                 /\ transactions # <<>>
                    => transactions' = WithMalformedData(transactions)]_vars

\* an AS-REP whose body does not decode was parsed on a flow that holds a
\* transaction: the call returned Ok and the transaction has no MalformedData
C31_Witness ==
    /\ last.op \in Krb5DatagramOps
    /\ BodyFails(last.input)
    /\ last.status = AppLayerResult_ok.status
    /\ transactions # <<>>
    /\ \A i \in 1..Len(transactions[Len(transactions)].events) :
         transactions[Len(transactions)].events[i] # "MalformedData"

-----------------------------------------------------------------------------
(* The transaction a state-level set_event reaches *)

\* the parse entry points of the parsers with a set_event on the state
SetEventOps == ParseOps \ {"rs_mqtt_parse_request", "rs_mqtt_parse_response"}

\* the ids of the transactions stored after the step that carry events they
\* did not carry before it
GainedEvents ==
    {transactions'[j].tx_id : j \in
       {k \in 1..Len(transactions') :
          IF \E i \in 1..Len(transactions) :
                transactions[i].tx_id = transactions'[k].tx_id
          THEN \E i \in 1..Len(transactions) :
                 /\ transactions[i].tx_id = transactions'[k].tx_id
                 /\ transactions[i].events # transactions'[k].events
          ELSE transactions'[k].events # <<>>}}

\* a call that raises an event and finds no transaction leaves the flow's
\* transactions and counters as they are
DroppedWithoutEffect ==
    (transactions = <<>> /\ HeaderFails(last'.op, last'.input))
    => UNCHANGED <<tx_id, transactions, events>>

-----------------------------------------------------------------------------
(* The two directions of a flow *)

RequestOps == {"rs_mqtt_parse_request", "rs_krb5_parse_request_tcp"}
ResponseOps == {"rs_mqtt_parse_response", "rs_krb5_parse_response_tcp"}

\* a KRB5State and an MQTTState with the stream state of one direction
\* replaced by that of a new flow
WithoutRequestSide(st) ==
    [st EXCEPT !.record_ts = 0, !.defrag_buf_ts = <<>>]
WithoutResponseSide(st) ==
    [st EXCEPT !.record_tc = 0, !.defrag_buf_tc = <<>>]

\* a KRB5/TCP call makes of its input what it makes of it when the other
\* direction's stream state is that of a new flow
Krb5OtherSideUnread(op, input) ==
    IF op = "rs_krb5_parse_request_tcp"
    THEN \A r \in {krb5_parse_request_tcp(Krb5State, input)},
            q \in {krb5_parse_request_tcp(WithoutResponseSide(Krb5State), input)} :
           /\ r.res = q.res
           /\ WithoutResponseSide(r.st) = q.st
    ELSE \A r \in {krb5_parse_response_tcp(Krb5State, input)},
            q \in {krb5_parse_response_tcp(WithoutRequestSide(Krb5State), input)} :
           /\ r.res = q.res
           /\ WithoutRequestSide(r.st) = q.st

\* the same for an MQTT call and the other direction's skip counter
MqttOtherSideUnread(op, input) ==
    \A oc \in BOOLEAN :
      IF op = "rs_mqtt_parse_request"
      THEN \A r \in {parse_request(MqttState, input, oc)},
              q \in {parse_request([MqttState EXCEPT !.skip_response = 0],
                                   input, oc)} :
             /\ r.res = q.res /\ r.outcome = q.outcome
             /\ [r.st EXCEPT !.skip_response = 0] = q.st
      ELSE \A r \in {parse_response(MqttState, input, oc)},
              q \in {parse_response([MqttState EXCEPT !.skip_request = 0],
                                    input, oc)} :
             /\ r.res = q.res /\ r.outcome = q.outcome
             /\ [r.st EXCEPT !.skip_request = 0] = q.st

\* C33: a parse call on the request direction leaves record_tc,
\* defrag_buf_tc and skip_response as they are and what it does is the same
\* whatever they hold; a parse call on the response direction likewise
\* leaves and ignores record_ts, defrag_buf_ts and skip_request.
C33_DirectionsAreIndependent ==
    [][/\ last'.op \in RequestOps
            => UNCHANGED <<record_tc, defrag_buf_tc, skip_response>>
       /\ last'.op \in ResponseOps
            => UNCHANGED <<record_ts, defrag_buf_ts, skip_request>>
       /\ last'.op \in TcpOps => Krb5OtherSideUnread(last'.op, last'.input)
       /\ last'.op \in {"rs_mqtt_parse_request", "rs_mqtt_parse_response"}
            => MqttOtherSideUnread(last'.op, last'.input)]_vars

\* a reply's bytes arrived on a KRB5 flow while the request direction holds a
\* partial record: both directions buffer, each its own bytes
C33_Witness ==
    /\ last.op = "rs_krb5_parse_response_tcp"
    /\ record_tc # 0 /\ defrag_buf_tc # <<>>
    /\ defrag_buf_ts # <<>>
    /\ defrag_buf_ts # defrag_buf_tc

-----------------------------------------------------------------------------
(* KRB5 over TCP: the record loop returns *)

DirOf(op) == IF op = "rs_krb5_parse_request_tcp" THEN "ts" ELSE "tc"

\* the bytes the loop of a call starts with: the buffered bytes in front of
\* the input when a record length is outstanding
LoopInput(op, input) ==
    IF RecordBefore(op) = 0 THEN input ELSE BufferedBefore(op) \o input

\* the loop of the call the host has made, run for one round more than it
\* has bytes
RoundsOf(op, input) ==
    LET v == LoopInput(op, input)
        st0 == IF RecordBefore(op) = 0 THEN Krb5State
               ELSE [Krb5State EXCEPT ![DefragField(DirOf(op))] = <<>>]
    IN  krb5_tcp_rounds(DirOf(op), st0, v, Len(v) + 1)

\* a call that enters the loop: the cap did not refuse it
EntersLoop(op, input) ==
    RecordBefore(op) = 0
    \/ Len(BufferedBefore(op)) + Len(input) <= KRB5_DEFRAG_CAP

\* the loop returns what the call returned and leaves the state it left
ReturnsAsCalled(t) ==
    /\ t.returned
    /\ t.res.status = last'.status
    /\ t.st = Krb5StateAfter

\* C34 as stated: the loop of every KRB5/TCP call returns after finitely
\* many rounds, and every round that does not return leaves fewer
\* unprocessed bytes than it found
C34_EveryRoundShortens ==
    [][(last'.op \in TcpOps /\ EntersLoop(last'.op, last'.input)) =>
         \A t \in {RoundsOf(last'.op, last'.input)} :
            /\ ReturnsAsCalled(t)
            /\ \A k \in 1..(Len(t.lens) - 1) : t.lens[k + 1] < t.lens[k]]_vars

\* C34: the loop of every KRB5/TCP call returns Ok or Error after at most
\* one round more than a quarter of its bytes: every round that does not
\* return takes the four bytes of a length prefix off the unprocessed bytes,
\* except the first round of a call that finds a record length outstanding,
\* which decodes and leaves the bytes as they are.
C34_RecordLoopReturns ==
    [][(last'.op \in TcpOps /\ EntersLoop(last'.op, last'.input)) =>
         \A t \in {RoundsOf(last'.op, last'.input)} :
            /\ ReturnsAsCalled(t)
            /\ last'.status \in {AppLayerResult_ok.status,
                                 AppLayerResult_err.status}
            /\ Len(t.lens) <= Len(LoopInput(last'.op, last'.input)) \div RecordMarkLen + 2
            /\ \A k \in 1..(Len(t.lens) - 1) :
                 IF k = 1 /\ RecordBefore(last'.op) # 0
                 THEN t.lens[k + 1] = t.lens[k]
                 ELSE t.lens[k + 1] = t.lens[k] - RecordMarkLen]_vars

\* a call found a record length of two outstanding and was given the two
\* bytes of an AS-REQ: its loop decoded them in the first round and buffered
\* the same two bytes in the second
C34_Witness ==
    /\ last.op = "rs_krb5_parse_request_tcp"
    /\ last.input = <<106, 0>>
    /\ last.status = AppLayerResult_ok.status
    /\ req_id = 10
    /\ record_ts = 0
    /\ defrag_buf_ts = <<106, 0>>
    /\ wire_ts = <<>>

-----------------------------------------------------------------------------
(* The iterator loop while the host removes transactions *)

\* the external ids a loop has returned
ReturnedIds == {walk.out[k].tx_id : k \in {j \in 1..Len(walk.out) : walk.out[j].found}}

\* a loop of the host over an MQTT store, started at the first position, has
\* ended
SweepEnded ==
    /\ proto = "mqtt"
    /\ ~walk.active /\ walk.out # <<>>
    /\ walk.from[2] = 0

\* C35: when the host removes transactions between the calls of a loop that
\* carries the cursor forward and passes the last returned id + 1, the loop
\* still returns every transaction that stays stored and has an id at or
\* above the minimum id, and returns none twice.
C35_SweepReturnsEverySurvivor ==
    SweepEnded =>
      /\ \A i \in 1..Len(transactions) :
           transactions[i].tx_id - 1 >= walk.from[1]
             => transactions[i].tx_id - 1 \in ReturnedIds
      /\ \A j, k \in 1..Len(walk.out) :
           (walk.out[j].found /\ walk.out[k].found /\ j # k)
             => walk.out[j].tx_id # walk.out[k].tx_id

\* a loop from id 0 and cursor 0 returned the transactions 0 and 1, the host
\* removed both, and the loop ended without returning transaction 2, which
\* is stored
C35_Witness ==
    /\ SweepEnded
    /\ walk.from = <<0, 0>>
    /\ ReturnedIds = {0, 1}
    /\ Len(transactions) = 1
    /\ transactions[1].tx_id = 3

-----------------------------------------------------------------------------
(* MQTT: what stays true of a session *)

\* the transaction at position i before the step is the one at position j
\* after it
SameTx(i, j) ==
    /\ i \in 1..Len(transactions) /\ j \in 1..Len(transactions')
    /\ transactions[i].tx_id = transactions'[j].tx_id

\* C36: in every MQTT state a complete transaction holds no correlation
\* key; a complete transaction stays complete and no message is appended to
\* it; the connected flag, once true, stays true.
C36_CompletionIsFinal ==
    [][/\ \A j \in 1..Len(transactions') :
            transactions'[j].complete => transactions'[j].pkt_id = None
       /\ \A i \in 1..Len(transactions), j \in 1..Len(transactions') :
            (SameTx(i, j) /\ transactions[i].complete)
              => /\ transactions'[j].complete
                 /\ transactions'[j].msg = transactions[i].msg
       /\ connected => connected']_vars

\* on an established session a PUBLISH was completed by its PUBACK, and a
\* second PUBACK with the same id has arrived: it is a transaction of its
\* own, the completed one holds its two messages
C36_Witness ==
    /\ connected
    /\ last.op \in MqttParseOps
    /\ Len(transactions) = 3
    /\ transactions[2].complete
    /\ transactions[2].msg = <<"PUBLISH", "PUBACK">>
    /\ transactions[2].pkt_id = None
    /\ transactions[3].msg = <<"PUBACK">>
    /\ transactions[3].events = <<"MissingPublish">>

-----------------------------------------------------------------------------
(* MQTT: the QoS 2 delivery *)

\* the message was appended to the transaction at position i, which keeps
\* its key and stays incomplete; nothing else changed and none was created
AppendedAt(i, type) ==
    /\ transactions' = [transactions EXCEPT ![i].msg = Append(@, type)]
    /\ ~transactions'[i].complete
    /\ transactions'[i].pkt_id = transactions[i].pkt_id
    /\ tx_id' = tx_id

\* the pending transactions a PUBLISH with id k opened
PendingPublish(k) ==
    {i \in Holders(transactions, k) : transactions[i].msg[1] = "PUBLISH"}

\* C37: on an established session a PUBREC or PUBREL with id k is appended
\* to the pending transaction of the PUBLISH with id k, which stays incomplete
\* and keeps its key, and the PUBCOMP with id k is appended to it and
\* completes it: the delivery PUBLISH, PUBREC, PUBREL, PUBCOMP is one
\* transaction holding the four messages in their order.
C37_Qos2IsOneTransaction ==
    [][EstablishedCall({"PUBREC", "PUBREL", "PUBCOMP"})
         => \A m \in {Decoded(last'.input)} :
              PendingPublish(m.message_id[1]) # {}
                => \E j \in PendingPublish(m.message_id[1]) :
                     IF m.type = "PUBCOMP" THEN CompletedAt(j, m.type)
                     ELSE AppendedAt(j, m.type)]_vars

\* the client's SUBSCRIBE with id 1 was pending when the broker's PUBLISH
\* with QoS 2 and id 1 arrived: PUBREC, PUBREL and PUBCOMP went to the
\* SUBSCRIBE transaction and completed it, the PUBLISH transaction holds
\* its PUBLISH alone and is pending
C37_Witness ==
    /\ connected
    /\ last.op \in MqttParseOps
    /\ Len(transactions) = 3
    /\ transactions[2].msg = <<"SUBSCRIBE", "PUBREC", "PUBREL", "PUBCOMP">>
    /\ transactions[2].complete
    /\ transactions[3].msg = <<"PUBLISH">>
    /\ ~transactions[3].complete
    /\ transactions[3].pkt_id # None

-----------------------------------------------------------------------------
(* MQTT: several pending transactions with one key *)

IdAcks == {"PUBACK", "PUBREC", "PUBREL", "PUBCOMP", "SUBACK", "UNSUBACK"}

\* the step is a parse call of one acknowledgement that looks a key up
AckLookup ==
    /\ last'.op \in MqttParseOps /\ last'.handled = 1
    /\ \/ Decoded(last'.input).type = "CONNACK"
       \/ connected /\ Decoded(last'.input).type \in IdAcks

\* the key an acknowledgement looks up
KeyOf(m) ==
    IF m.type = "CONNACK" THEN MQTT_CONNECT_PKT_ID
    ELSE as_u32(m.message_id[1])

\* the positions of the incomplete transactions that hold the key
Pending(txs, key) ==
    {i \in 1..Len(txs) : ~txs[i].complete /\ txs[i].pkt_id = Some(key)}

\* what an acknowledgement of the type does to the transaction it matches
Matched(tx, type) ==
    IF type \in {"PUBREC", "PUBREL"} THEN [tx EXCEPT !.msg = Append(@, type)]
    ELSE [tx EXCEPT !.msg = Append(@, type), !.complete = TRUE,
                    !.pkt_id = None]

\* C38: when one or more incomplete MQTT transactions hold the key of an
\* acknowledgement, the acknowledgement is appended to exactly one of them,
\* the one with the lowest id among those still stored; every other
\* transaction stays as it is and none is created, so a transaction the host
\* has removed is not matched.
C38_AckMatchesOldestPending ==
    [][AckLookup =>
         \A m \in {Decoded(last'.input)} :
            \A P \in {Pending(transactions, KeyOf(m))} :
               P # {} =>
                 \E j \in P :
                    /\ \A i \in P : transactions[j].tx_id <= transactions[i].tx_id
                    /\ transactions'
                         = [transactions EXCEPT ![j] = Matched(@, m.type)]
                    /\ tx_id' = tx_id]_vars

\* two CONNECT were pending and a CONNACK has arrived: the first CONNECT's
\* transaction holds it and is complete, the second is pending with the key
C38_Witness ==
    /\ last.op \in MqttParseOps
    /\ Len(transactions) = 2
    /\ transactions[1].msg = <<"CONNECT", "CONNACK">>
    /\ transactions[1].complete
    /\ transactions[2].msg = <<"CONNECT">>
    /\ ~transactions[2].complete
    /\ transactions[2].pkt_id = Some(MQTT_CONNECT_PKT_ID)
    /\ transactions[2].events = <<>>

-----------------------------------------------------------------------------
(* Removing a transaction that is not stored *)

TxFreeOps ==
    {"rs_mqtt_state_tx_free", "rs_dhcp_state_tx_free", "rs_ntp_state_tx_free",
     "rs_ike_state_tx_free", "rs_krb5_state_tx_free"}

\* the step is a tx_free of an id no stored transaction has
FreesUnstored ==
    /\ last'.op \in TxFreeOps
    /\ \A i \in 1..Len(transactions) : transactions[i].tx_id # last'.arg[1] + 1

\* C39: in every protocol, removing an id that is not stored does not fail
\* and changes nothing: the stored transactions, the id counter and the
\* session and reassembly state stay as they are.
C39_RemoveUnstoredIsNoOp ==
    [][FreesUnstored =>
         /\ last'.outcome = "returned"
         /\ pstate' = pstate
         /\ UNCHANGED <<transactions, tx_id, events, protocol_version, connected,
                        skip_request, skip_response, req_id, record_ts,
                        defrag_buf_ts, record_tc, defrag_buf_tc>>]_vars

\* the host has removed an id from an NTP, IKE or KRB5 flow that does not
\* store it, in a build with debug assertions: the call panicked
C39_Witness ==
    /\ last.op \in {"rs_ntp_state_tx_free", "rs_ike_state_tx_free",
                    "rs_krb5_state_tx_free"}
    /\ last.outcome = "panic"
    /\ pstate = "panic"
    /\ \A i \in 1..Len(transactions) : transactions[i].tx_id # last.arg[1] + 1

-----------------------------------------------------------------------------
(* MQTT: the bytes of an over-long message that arrive later *)

\* the skip counter of the direction of op, before and after the step
SkipBefore(op) ==
    IF op = "rs_mqtt_parse_request" THEN skip_request ELSE skip_response
SkipAfter(op) ==
    IF op = "rs_mqtt_parse_request" THEN skip_request' ELSE skip_response'

\* the state with nothing to skip in the direction of op
NothingToSkip(op, st) ==
    IF op = "rs_mqtt_parse_request" THEN [st EXCEPT !.skip_request = 0]
    ELSE [st EXCEPT !.skip_response = 0]

\* the parse method of op
ParseOf(op, st, input, overflow_checks) ==
    IF op = "rs_mqtt_parse_request" THEN parse_request(st, input, overflow_checks)
    ELSE parse_response(st, input, overflow_checks)

\* the chunk starts with an over-long message of which it holds no more than
\* the skipped length
StartsOverLong(input) ==
    \E p \in {parse_message(input, 0, cfg_max_msg_len)} :
      /\ p.kind = "Ok" /\ p.msg.type = "TRUNCATED"
      /\ Len(input) <= p.msg.skipped_length

\* one complete transaction is created for the message, the call returns Ok
\* and the counter holds the bytes of the message that have not arrived
OverLongIsRecorded(op, input) ==
    /\ last'.outcome = "returned" /\ last'.status = AppLayerResult_ok.status
    /\ tx_id' = tx_id + 1
    /\ Len(transactions') = Len(transactions) + 1
    /\ SubSeq(transactions', 1, Len(transactions)) = transactions
    /\ transactions'[Len(transactions')].msg = <<"TRUNCATED">>
    /\ transactions'[Len(transactions')].complete
    /\ SkipAfter(op)
         = parse_message(input, 0, cfg_max_msg_len).msg.skipped_length - Len(input)

\* a chunk that ends inside the bytes to skip is discarded
ChunkIsDiscarded(op, input) ==
    /\ last'.outcome = "returned" /\ last'.status = AppLayerResult_ok.status
    /\ last'.handled = 0
    /\ SkipAfter(op) = SkipBefore(op) - Len(input)
    /\ NothingToSkip(op, MqttStateNext) = NothingToSkip(op, MqttState)

\* a chunk that reaches past the bytes to skip is decoded from the first
\* byte after them as a call decodes that has nothing to skip
DecodingResumes(op, input) ==
    \E oc \in BOOLEAN :
       \E q \in {ParseOf(op, NothingToSkip(op, MqttState),
                         Drop(input, SkipBefore(op)), oc)} :
          /\ q.st = MqttStateNext
          /\ q.outcome = last'.outcome
          /\ q.res.status = last'.status
          /\ q.handled = last'.handled
          /\ (q.outcome = "returned" /\ is_incomplete(q.res))
               => last'.consumed = SkipBefore(op) + q.res.consumed

\* C40: when an over-long MQTT message is decoded as TRUNCATED with skipped
\* length S from a chunk that holds C <= S bytes of it, one complete
\* transaction is created, the call returns Ok, and the next S - C bytes of
\* that direction are discarded, in however many calls they arrive, without
\* being decoded or creating transactions; decoding goes on at the first
\* byte after them with the direction's skip counter at 0.
C40_OverLongRestIsSkipped ==
    [][last'.op \in MqttParseOps =>
         \A op \in {last'.op}, input \in {last'.input} :
            /\ (SkipBefore(op) = 0 /\ StartsOverLong(input))
                 => OverLongIsRecorded(op, input)
            /\ (SkipBefore(op) > 0 /\ Len(input) > 0
                /\ Len(input) <= SkipBefore(op))
                 => ChunkIsDiscarded(op, input)
            /\ (SkipBefore(op) > 0 /\ Len(input) > SkipBefore(op))
                 => DecodingResumes(op, input)]_vars

\* an over-long PUBLISH was recorded from its first bytes, and a later chunk
\* held the last byte to skip and the PINGREQ behind it: the PINGREQ is the
\* second transaction and nothing is left to skip
C40_Witness ==
    /\ last.op = "rs_mqtt_parse_request"
    /\ last.preskip = 1 /\ Len(last.input) = 3
    /\ last.handled = 1
    /\ last.status = AppLayerResult_ok.status
    /\ skip_request = 0
    /\ Len(transactions) = 2
    /\ transactions[1].msg = <<"TRUNCATED">> /\ transactions[1].complete
    /\ transactions[2].msg = <<"PINGREQ">>

====
